---------------------------- MODULE Spec2Model ----------------------------
(***************************************************************************)
(* A model of the tsp-rust workspace: the Held-Karp branch-and-bound       *)
(* solver (crates/tsp-solvers/src/held_karp_mod), its 1-tree and spanning  *)
(* tree kernels, the edge-data matrices and tour type of tsp-core, and the *)
(* chunked distance fill of tsp-parser.                                    *)
(*                                                                         *)
(* Matrices are functions on pairs of node indices, vectors are functions  *)
(* on node indices or sequences, Option<T> is a record with an `ok` field. *)
(* ScaledDistance and Distance are i32 in the source; the solver model     *)
(* works on instances whose values stay far inside that range, so the      *)
(* solver arithmetic is written with unbounded integers.                   *)
(***************************************************************************)
EXTENDS Integers, Sequences, FiniteSets, TLC

VARIABLES
    entry,            \* which entry point of the workspace this behaviour exercises
    dimension,        \* distances.dimension()
    distances,        \* Matrix<Distance>, raw
    scaled_distances, \* Matrix<ScaledDistance>
    edge_states,      \* Matrix<EdgeState>
    node_penalties,   \* Vec<ScaledDistance>
    tree_result,      \* value returned by the last kernel call (min_spanning_tree / min_one_tree)
    tour_a,           \* an UnTour: [edges, cost]
    tour_b,           \* an UnTour: [edges, cost]
    eq_result,        \* the results of tour_a == tour_b and tour_b == tour_a
    sym,              \* an EdgeDataMatrixSym: [data, dimension]
    full,             \* the EdgeDataMatrix returned by sym.to_edge_data_matrix()
    fill_dimension,   \* compute_dists_from_node_coords: dimension
    nthreads,         \* std::thread::available_parallelism()
    build,            \* "debug" or "release": whether debug assertions and overflow checks are on
    distance_data,    \* the n*n vector being filled, indexed from 0
    current_chunk_start,        \* the spawning loop's index into distance_data
    current_first_entry_index,  \* the spawning loop's lower-triangle index
    workers,          \* the spawned chunk workers, in spawn order
    fill_pc,          \* "called", "returned" or "panicked"
    fixed_degrees,    \* held_karp: Vec<u32>, Fixed edges at each node
    upper_bound,      \* held_karp: initial_upper_bound, updated by explore_node
    best_tour,        \* held_karp: Option<UnTour>
    bb_counter,       \* held_karp: number of explore_node calls so far
    bb_limit,         \* explore_node: Option<usize>, NoLimit for None
    stack,            \* the explore_node activations waiting for a recursive call
    depth,            \* explore_node: depth of the running activation
    pc,               \* where the running explore_node activation is
    scaled_upper_bound,       \* held_karp_lower_bound locals
    scaled_best_lower_bound,
    iter_count,
    alpha,
    node_penalty_sum,
    one_tree,         \* the last result of min_one_tree in the loop
    one_tree_cost,    \* its Lagrangian value
    one_tree_penalties, \* the penalties it was built under
    lb_output,        \* what held_karp_lower_bound returned to explore_node
    fp_value,         \* fixed point: the Distance handed to from_distance
    fp_scaled,        \* fixed point: the ScaledDistance from_distance returned
    fp_back,          \* fixed point: the Distance to_distance returned
    fp_pc,            \* fixed point: "input", "scaled" or "back"
    metadata_builder, \* parse_metadata: the InstanceMetadataBuilder
    header_lines,     \* parse_metadata: number of lines consumed (index_in_map)
    line,             \* parse_metadata: the last line read, [colon, keyword, value]
    header_result,    \* parse_metadata: what it returned
    file_content,     \* node coord section: [lines, terminated], a line is its tokens
    index_in_map,     \* node coord section: number of lines consumed
    is_float,         \* node coord section: the sampled flag, <<>> before the sampling
    point_data,       \* node coord section: the points pushed
    section_result    \* node coord section: what it returned

treeVars == <<dimension, distances, scaled_distances, edge_states, node_penalties, tree_result>>
tourVars == <<tour_a, tour_b, eq_result>>
symVars == <<sym, full>>
solverVars == <<fixed_degrees, upper_bound, best_tour, bb_counter, bb_limit, stack, depth, pc>>
boundVars == <<scaled_upper_bound, scaled_best_lower_bound, iter_count, alpha,
               node_penalty_sum, one_tree, one_tree_cost, one_tree_penalties, lb_output>>
fixedVars == <<fp_value, fp_scaled, fp_back, fp_pc>>
\* the variables of the entry points added after the solver, kernels, tours,
\* matrices and fill
headerVars == <<metadata_builder, header_lines, line, header_result>>
sectionVars == <<file_content, index_in_map, is_float, point_data, section_result>>
auxVars == <<fixedVars, headerVars, sectionVars>>
fillVars == <<fill_dimension, nthreads, build, distance_data, current_chunk_start,
              current_first_entry_index, workers, fill_pc>>

---------------------------------------------------------------------------
(* Bounds of the model *)

MaxDim == 5        \* largest matrix dimension the kernel inputs are drawn with
MaxDistDim == 4    \* largest matrix with free distances
MaxDist == 2       \* largest raw distance of the free-distance kernel inputs
MaxNodes == 5      \* largest instance held_karp is run on
MaxHeavy == 2      \* most edges of distance 1 in an instance (the others have distance 0)
MaxTourLen == 2    \* longest edge list of the compared tours
MaxTourNode == 2   \* largest node index in the compared tours
MaxCost == 1       \* largest cost of the compared tours
MaxSymDim == 3     \* largest dimension of the converted symmetric matrix
MaxCell == 2       \* largest cell value of the converted symmetric matrix
MaxFillDim == 5    \* largest dimension of the filled distance matrix
MaxHeaderLines == 5 \* most lines of a header, the data keyword's line included
MaxLines == 3 \* most lines of a node coordinate section
MaxProbe == 40     \* width of the windows of Distance values the fixed-point calls are drawn from
MaxThreads == 4    \* largest number of worker threads of the fill

---------------------------------------------------------------------------
(* tsp-core: distances, nodes, edges *)

FIXED_POINT_FRACTIONAL_BITS == 5

ScaledMAX == 2147483647

ScaledMIN == -2147483647 - 1

\* i32 `x << k`, 0 < k < 32: the low 32 - k bits of x move up, the high k bits
\* are lost (no panic: only a shift amount >= 32 is checked)
Shl32(x, k) ==
    LET low == x % (2 ^ (32 - k))
    IN IF low < 2 ^ (31 - k) THEN low * (2 ^ k) ELSE (low - 2 ^ (32 - k)) * (2 ^ k)

\* i32 `x >> k`: arithmetic shift, the floor of x / 2^k
Shr32(x, k) == x \div (2 ^ k)

\* Distance::MAX = i32::MAX >> FIXED_POINT_FRACTIONAL_BITS
DistanceMAX == Shr32(ScaledMAX, FIXED_POINT_FRACTIONAL_BITS)

\* from_distance with one fractional bit less
from_distance_short(d) == Shl32(d, FIXED_POINT_FRACTIONAL_BITS - 1)

\* ScaledDistance::from_distance: value.0 << FIXED_POINT_FRACTIONAL_BITS
from_distance(d) == Shl32(d, FIXED_POINT_FRACTIONAL_BITS)

\* ScaledDistance::to_distance: self.0 >> FIXED_POINT_FRACTIONAL_BITS
to_distance(s) == Shr32(s, FIXED_POINT_FRACTIONAL_BITS)

\* whether the i32 addition a + b leaves the range of i32
AddOverflows(a, b) ==
    \/ b > 0 /\ a > ScaledMAX - b
    \/ b < 0 /\ a < ScaledMIN - b

\* i32 `a + b` as a build without overflow checks computes it: modulo 2^32
Add32(a, b) ==
    IF b > 0 /\ a > ScaledMAX - b THEN ((a - ScaledMAX) + (b - 1)) + ScaledMIN
    ELSE IF b < 0 /\ a < ScaledMIN - b THEN ((a - ScaledMIN) + (b + 1)) + ScaledMAX
    ELSE a + b

\* to_distance_rounded_up without the adjustment before the shift
to_distance_not_adjusted(s) == Shr32(s, FIXED_POINT_FRACTIONAL_BITS)

\* ScaledDistance::to_distance_rounded_up: (self.0 + (1 << BITS) - 1) >> BITS,
\* the sum taken from the left: first + (1 << BITS), then - 1
to_distance_rounded_up(s) ==
    Shr32(Add32(Add32(s, 2 ^ FIXED_POINT_FRACTIONAL_BITS), -1), FIXED_POINT_FRACTIONAL_BITS)

\* whether one of the two additions of to_distance_rounded_up overflows
to_distance_rounded_up_overflows(s) ==
    \/ AddOverflows(s, 2 ^ FIXED_POINT_FRACTIONAL_BITS)
    \/ AddOverflows(Add32(s, 2 ^ FIXED_POINT_FRACTIONAL_BITS), -1)

\* i32 division of Rust: truncates toward zero
TruncDiv(a, b) == IF a >= 0 THEN a \div b ELSE -((-a) \div b)

Nodes(n) == 0 .. (n - 1)

UnEdge(from, to) == [from |-> from, to |-> to]

\* impl PartialEq for UnEdge: equal as unordered pairs
UnEdgeEq(a, b) ==
    \/ (a.from = b.from /\ a.to = b.to)
    \/ (a.from = b.to /\ a.to = b.from)

Available == "Available"
Excluded == "Excluded"
Fixed == "Fixed"
EdgeState == {Available, Excluded, Fixed}

None == [ok |-> FALSE, tree |-> <<>>]
Some(t) == [ok |-> TRUE, tree |-> t]

\* Vec::swap_remove(index) on a sequence indexed from 1
swap_remove(s, i) ==
    LET last == s[Len(s)]
        front == SubSeq(s, 1, Len(s) - 1)
    IN IF i = Len(s) THEN front ELSE [front EXCEPT ![i] = last]

---------------------------------------------------------------------------
(* tsp-core instance/mod.rs: UnTour *)

\* Vec<UnEdge>::contains, with UnEdge's PartialEq
Contains(edges, e) == \E i \in 1 .. Len(edges) : UnEdgeEq(edges[i], e)

\* impl PartialEq for UnTour
UnTourEq(a, b) ==
    /\ a.cost = b.cost
    /\ Len(a.edges) = Len(b.edges)
    /\ \A i \in 1 .. Len(a.edges) : Contains(b.edges, a.edges[i])

---------------------------------------------------------------------------
(* tsp-core instance/edge/data/symmetric.rs: EdgeDataMatrixSym *)

get_lower_triangle_matrix_entry_row_bigger(row, column) == (row * (row + 1)) \div 2 + column

get_lower_triangle_matrix_entry(row, column) ==
    IF row > column
    THEN get_lower_triangle_matrix_entry_row_bigger(row, column)
    ELSE get_lower_triangle_matrix_entry_row_bigger(column, row)

\* EdgeDataMatrixSym::get_data; data is indexed from 0
SymGetData(m, from, to) == m.data[get_lower_triangle_matrix_entry(from, to)]

SymGetDataFromBigger(m, from, to) == m.data[get_lower_triangle_matrix_entry_row_bigger(from, to)]

\* EdgeDataMatrixSym::to_edge_data_matrix: every cell starts as data[0], then
\* the cells below the diagonal are copied to both triangles
to_edge_data_matrix(m) ==
    [data |-> [p \in Nodes(m.dimension) \X Nodes(m.dimension) |->
                 IF p[1] > p[2] THEN SymGetDataFromBigger(m, p[1], p[2])
                 ELSE IF p[2] > p[1] THEN SymGetDataFromBigger(m, p[2], p[1])
                 ELSE m.data[0]],
     dimension |-> m.dimension]

\* EdgeDataMatrix::get_data
GetData(m, from, to) == m.data[from, to]

---------------------------------------------------------------------------
(* tsp-parser distance_container: the chunked fill of the distance matrix *)

\* The threshold on dimension * dimension from which the fill is chunked. The
\* source sets 100_000 (dimension >= 317); it is scaled down here so that the
\* matrices that are enumerated take the chunked branch.
PARALLELISM_BOUND == 9

\* find_row_column_from_lower_triangle_index: row = floor(-0.5 + sqrt(0.25 + 2 index)),
\* the largest row with row (row + 1) / 2 <= index; column = index - row (row + 1) / 2
find_row_column_from_lower_triangle_index(index) ==
    LET row == CHOOSE r \in 0 .. index :
                   /\ (r * (r + 1)) \div 2 <= index
                   /\ index < ((r + 1) * (r + 2)) \div 2
    IN <<row, index - (row * (row + 1)) \div 2>>

\* usize::div_ceil
div_ceil(a, b) == (a + b - 1) \div b

Min(a, b) == IF a < b THEN a ELSE b

\* the distance function applied to the points of nodes `row` and `column`;
\* distinct and non-zero for distinct cells
distance_function(row, column, n) == 1 + row * n + column

\* The cells compute_dists_from_node_coords_chunk computes, from its three
\* loops: the start row from start_column up to the diagonal, the rows strictly
\* between start and end row, and the end row below end_column.
ChunkCells(first_entry_index, number_of_entries_in_chunk) ==
    LET s == find_row_column_from_lower_triangle_index(first_entry_index)
        e == find_row_column_from_lower_triangle_index(
                 first_entry_index + number_of_entries_in_chunk - 1)
    IN {<<s[1], c>> : c \in s[2] .. (s[1] - 1)}
       \cup {p \in ((s[1] + 1) .. (e[1] - 1)) \X (0 .. e[1]) : p[2] < p[1]}
       \cup {<<e[1], c>> : c \in 0 .. (e[2] - 1)}

\* set_distance: the index the cell is written at, relative to the chunk
IndexInChunk(cell, chunk_start_index, n) == cell[1] * n + cell[2] - chunk_start_index

\* the cells whose write falls outside the chunk slice (the debug assertion of
\* set_distance fails, or the subtraction underflows)
OutOfChunk(w, n) ==
    {cell \in ChunkCells(w.first_entry_index, w.number_of_entries_in_chunk) :
        \/ IndexInChunk(cell, w.chunk_start_index, n) < 0
        \/ IndexInChunk(cell, w.chunk_start_index, n) >= w.chunk_len}

\* distance_data after the writes of one chunk; a write is addressed from the
\* start of the chunk slice, so it lands at flat index row * n + column
WriteChunk(data, first_entry_index, number_of_entries_in_chunk, n) ==
    [i \in DOMAIN data |->
        IF <<i \div n, i % n>> \in ChunkCells(first_entry_index, number_of_entries_in_chunk)
        THEN distance_function(i \div n, i % n, n)
        ELSE data[i]]

\* the mirroring loop of compute_dists_from_node_coords (matrix.rs 94-99)
Mirror(data, n) ==
    [i \in DOMAIN data |->
        IF i \div n < i % n THEN data[(i % n) * n + (i \div n)] ELSE data[i]]

ZeroData(n) == [i \in 0 .. (n * n - 1) |-> 0]

\* the single-chunk fill of the branch total_size < PARALLELISM_BOUND
SequentialFill(n) == Mirror(WriteChunk(ZeroData(n), 0, (n * (n + 1)) \div 2, n), n)

---------------------------------------------------------------------------
(* held_karp_mod/trees.rs: min_spanning_tree *)

\* MstScan with the reduced distance computed without the penalty of `next`
RECURSIVE MstScanPenaltyDropped(_, _, _, _, _, _, _)
MstScanPenaltyDropped(ds, es, pen, curr, rem, i, s) ==
    IF i > Len(rem) \/ s.failed THEN s
    ELSE
        LET next == rem[i]
            st == es[curr, next]
            adjusted == ds[curr, next] - pen[curr]
            upd ==
                IF st = Available
                THEN IF adjusted < s.cost[next]
                     THEN [s EXCEPT !.cost[next] = adjusted, !.pred[next] = curr]
                     ELSE s
                ELSE IF s.cost[next] = ScaledMIN
                     THEN [s EXCEPT !.failed = TRUE]
                     ELSE [s EXCEPT !.cost[next] = ScaledMIN, !.pred[next] = curr]
            chosen ==
                IF ~upd.failed /\ upd.cost[next] < upd.cheapest_edge
                THEN [upd EXCEPT !.cheapest_edge = upd.cost[next], !.cheapest_node = i]
                ELSE upd
        IN IF st = Excluded
           THEN MstScanPenaltyDropped(ds, es, pen, curr, rem, i + 1, s)
           ELSE MstScanPenaltyDropped(ds, es, pen, curr, rem, i + 1, chosen)

\* MstScan with the Excluded arm missing: an Excluded edge is relaxed like an
\* Available one
RECURSIVE MstScanExcludedRelaxed(_, _, _, _, _, _, _)
MstScanExcludedRelaxed(ds, es, pen, curr, rem, i, s) ==
    IF i > Len(rem) \/ s.failed THEN s
    ELSE
        LET next == rem[i]
            st == es[curr, next]
            adjusted == ds[curr, next] - pen[curr] - pen[next]
            upd ==
                IF st # Fixed
                THEN IF adjusted < s.cost[next]
                     THEN [s EXCEPT !.cost[next] = adjusted, !.pred[next] = curr]
                     ELSE s
                ELSE IF s.cost[next] = ScaledMIN
                     THEN [s EXCEPT !.failed = TRUE]
                     ELSE [s EXCEPT !.cost[next] = ScaledMIN, !.pred[next] = curr]
            chosen ==
                IF ~upd.failed /\ upd.cost[next] < upd.cheapest_edge
                THEN [upd EXCEPT !.cheapest_edge = upd.cost[next], !.cheapest_node = i]
                ELSE upd
        IN MstScanExcludedRelaxed(ds, es, pen, curr, rem, i + 1, chosen)

\* MstScan without the test for a node already reached by a Fixed edge
RECURSIVE MstScanNoCycleCheck(_, _, _, _, _, _, _)
MstScanNoCycleCheck(ds, es, pen, curr, rem, i, s) ==
    IF i > Len(rem) \/ s.failed THEN s
    ELSE
        LET next == rem[i]
            st == es[curr, next]
            adjusted == ds[curr, next] - pen[curr] - pen[next]
            upd ==
                IF st = Available
                THEN IF adjusted < s.cost[next]
                     THEN [s EXCEPT !.cost[next] = adjusted, !.pred[next] = curr]
                     ELSE s
                ELSE [s EXCEPT !.cost[next] = ScaledMIN, !.pred[next] = curr]
            chosen ==
                IF ~upd.failed /\ upd.cost[next] < upd.cheapest_edge
                THEN [upd EXCEPT !.cheapest_edge = upd.cost[next], !.cheapest_node = i]
                ELSE upd
        IN IF st = Excluded
           THEN MstScanNoCycleCheck(ds, es, pen, curr, rem, i + 1, s)
           ELSE MstScanNoCycleCheck(ds, es, pen, curr, rem, i + 1, chosen)

\* The scan of one round over remaining_nodes[i..] (trees.rs 127-157).
\* s = [cost, pred, cheapest_edge, cheapest_node, failed]; cheapest_node is the
\* 1-based index into remaining_nodes, 0 for None.
RECURSIVE MstScan(_, _, _, _, _, _, _)
MstScan(ds, es, pen, curr, rem, i, s) ==
    IF i > Len(rem) \/ s.failed THEN s
    ELSE
        LET next == rem[i]
            st == es[curr, next]
            adjusted == ds[curr, next] - pen[curr] - pen[next]
            upd ==
                IF st = Available
                THEN IF adjusted < s.cost[next]
                     THEN [s EXCEPT !.cost[next] = adjusted, !.pred[next] = curr]
                     ELSE s
                ELSE IF s.cost[next] = ScaledMIN
                     THEN [s EXCEPT !.failed = TRUE]
                     ELSE [s EXCEPT !.cost[next] = ScaledMIN, !.pred[next] = curr]
            chosen ==
                IF ~upd.failed /\ upd.cost[next] < upd.cheapest_edge
                THEN [upd EXCEPT !.cheapest_edge = upd.cost[next], !.cheapest_node = i]
                ELSE upd
        IN IF st = Excluded
           THEN MstScan(ds, es, pen, curr, rem, i + 1, s)
           ELSE MstScan(ds, es, pen, curr, rem, i + 1, chosen)

\* The rounds of the Prim loop (trees.rs 119-172); k rounds are left.
RECURSIVE MstRounds(_, _, _, _, _, _, _, _, _)
MstRounds(ds, es, pen, curr, rem, cost, pred, tree, k) ==
    IF k = 0 THEN Some(tree)
    ELSE
        LET s == MstScan(ds, es, pen, curr, rem, 1,
                         [cost |-> cost, pred |-> pred, cheapest_edge |-> ScaledMAX,
                          cheapest_node |-> 0, failed |-> FALSE])
        IN IF s.failed \/ s.cheapest_node = 0 THEN None
           ELSE
               LET cheapest == rem[s.cheapest_node]
               IN MstRounds(ds, es, pen, cheapest, swap_remove(rem, s.cheapest_node),
                            s.cost, s.pred,
                            Append(tree, UnEdge(s.pred[cheapest], cheapest)), k - 1)

\* min_spanning_tree on the matrix with row and column 0 removed; n is the
\* dimension of the full matrix (dimension_adjusted() = n - 1 nodes in the tree).
min_spanning_tree(ds, es, pen, n) ==
    LET number_of_nodes_in_tree == n - 1
        remaining_nodes == [i \in 1 .. (number_of_nodes_in_tree - 1) |-> i + 1]
        best_pred_to_node == [v \in 0 .. number_of_nodes_in_tree |-> number_of_nodes_in_tree + 1]
        best_cost_to_node == [v \in 0 .. number_of_nodes_in_tree |-> ScaledMAX]
    IN MstRounds(ds, es, pen, 1, remaining_nodes, best_cost_to_node, best_pred_to_node,
                 <<>>, number_of_nodes_in_tree - 1)

---------------------------------------------------------------------------
(* held_karp_mod/trees.rs: min_one_tree *)

\* ZeroScan with a Fixed edge compared by its distance like an Available one
RECURSIVE ZeroScanFixedNotForced(_, _, _, _, _)
ZeroScanFixedNotForced(ds, es, n, v, z) ==
    IF v >= n \/ z.failed THEN z
    ELSE
        LET distance == ds[0, v]
            st == es[0, v]
            nz == IF st = Excluded THEN z
                  ELSE IF distance < z.da
                       THEN [z EXCEPT !.db = z.da, !.nb = z.na, !.da = distance, !.na = v]
                       ELSE IF distance < z.db
                            THEN [z EXCEPT !.db = distance, !.nb = v]
                            ELSE z
        IN ZeroScanFixedNotForced(ds, es, n, v + 1, nz)

\* The scan of node 0's row from column v on (trees.rs 39-72).
\* z = [da, db, na, nb, failed]; na/nb are nodes, -1 for None.
RECURSIVE ZeroScan(_, _, _, _, _)
ZeroScan(ds, es, n, v, z) ==
    IF v >= n \/ z.failed THEN z
    ELSE
        LET distance == ds[0, v]
            st == es[0, v]
            nz == IF st = Excluded THEN z
                  ELSE IF st = Available
                  THEN IF distance < z.da
                       THEN [z EXCEPT !.db = z.da, !.nb = z.na, !.da = distance, !.na = v]
                       ELSE IF distance < z.db
                            THEN [z EXCEPT !.db = distance, !.nb = v]
                            ELSE z
                  ELSE IF z.db = ScaledMIN
                       THEN [z EXCEPT !.failed = TRUE]
                       ELSE [z EXCEPT !.db = z.da, !.nb = z.na, !.da = ScaledMIN, !.na = v]
        IN ZeroScan(ds, es, n, v + 1, nz)

min_one_tree(ds, es, pen, n) ==
    LET tree == min_spanning_tree(ds, es, pen, n)
        z == ZeroScan(ds, es, n, 1,
                      [da |-> ScaledMAX, db |-> ScaledMAX, na |-> -1, nb |-> -1,
                       failed |-> FALSE])
    IN IF ~tree.ok THEN None
       ELSE IF z.failed THEN None
       ELSE IF z.nb # -1
            THEN Some(Append(Append(tree.tree, UnEdge(0, z.na)), UnEdge(0, z.nb)))
            ELSE None

---------------------------------------------------------------------------
(* held_karp_mod/mod.rs: the solver's constants and helpers *)

INITIAL_MAX_ITERATIONS == 1000
MAX_ITERATIONS == 10

\* f64 values are modelled by exact decimal fractions: a sequence of base-100
\* digits, the first one the integer part. INITIAL_ALPHA = 2.0; the betas are
\* given in hundredths (INITIAL_BETA = 0.99, BETA = 0.9).
INITIAL_ALPHA == <<2>>
INITIAL_BETA == 99
BETA == 90

\* a * m + c over the digit positions lo..hi, by halves (the right half's carry
\* enters the left half): the carry out of position lo and the digits lo..hi.
\* Digits, multiplier and carries are natural numbers.
RECURSIVE MulDigits(_, _, _, _, _)
MulDigits(a, m, lo, hi, c) ==
    IF lo = hi
    THEN [carry |-> (a[lo] * m + c) \div 100, digits |-> <<(a[lo] * m + c) % 100>>]
    ELSE LET mid == (lo + hi) \div 2
             right == MulDigits(a, m, mid + 1, hi, c)
             left == MulDigits(a, m, lo, mid, right.carry)
         IN CASE right.carry >= 0 /\ left.carry >= 0 ->
                 [carry |-> left.carry, digits |-> left.digits \o right.digits]

\* alpha *= beta, beta in hundredths: alpha * beta / 100 moves every digit of
\* the product one position down
AlphaTimesBeta(a, b) ==
    LET r == MulDigits(a, b, 1, Len(a), 0)
    IN <<r.carry>> \o r.digits

\* (alpha * ((scaled_upper_bound - one_tree_cost) as f64 / square_sum as f64)) as i32,
\* for a positive difference x: the integer part of alpha * x, divided by square_sum
StepSize(a, x, square_sum) ==
    LET c == IF Len(a) = 1 THEN 0 ELSE MulDigits(a, x, 2, Len(a), 0).carry
    IN (a[1] * x + c) \div square_sum

\* the sum of a vector of ScaledDistance
RECURSIVE SumVec(_, _)
SumVec(v, n) == IF n = 0 THEN 0 ELSE v[n - 1] + SumVec(v, n - 1)

\* 2 * node_penalty_sum + sum over the edges of d(u,v) - pi[u] - pi[v] (mod.rs 334-344)
RECURSIVE EdgeCostSum(_, _, _, _)
EdgeCostSum(tree, ds, pen, i) ==
    IF i > Len(tree) THEN 0
    ELSE ds[tree[i].from, tree[i].to] - pen[tree[i].from] - pen[tree[i].to]
         + EdgeCostSum(tree, ds, pen, i + 1)

OneTreeCost(tree, ds, pen, penalty_sum) == 2 * penalty_sum + EdgeCostSum(tree, ds, pen, 1)

\* deg[v] = 2 - degree of v in the 1-tree (mod.rs 366-371)
\* Deg without the decrement at the `to` end of each edge
DegOfFromEnds(tree, n) ==
    [v \in Nodes(n) |-> 2 - Cardinality({i \in 1 .. Len(tree) : tree[i].from = v})]

Deg(tree, n) ==
    [v \in Nodes(n) |->
        2 - Cardinality({i \in 1 .. Len(tree) : tree[i].from = v})
          - Cardinality({i \in 1 .. Len(tree) : tree[i].to = v})]

SquareSum(deg, n) == SumVec([v \in Nodes(n) |-> deg[v] * deg[v]], n)

\* the cost of a tour found as a 1-tree: the raw distances of its edges, summed
RECURSIVE RawCostFrom(_, _, _)
RawCostFrom(tree, d, i) ==
    IF i > Len(tree) THEN 0 ELSE d[tree[i].from, tree[i].to] + RawCostFrom(tree, d, i + 1)

\* TourCost with the scaled distances summed instead of the raw ones
TourCostScaled(tree, d) == from_distance(RawCostFrom(tree, d, 1))

\* TourCost one above the sum of the raw distances
TourCostPlusOne(tree, d) == RawCostFrom(tree, d, 1) + 1

TourCost(tree, d) == RawCostFrom(tree, d, 1)

\* BranchScan that replaces the minimum on equal reduced distances as well
RECURSIVE BranchScanLastOnTies(_, _, _, _, _, _)
BranchScanLastOnTies(ds, es, pen, tree, i, m) ==
    IF i > Len(tree) THEN m
    ELSE LET e == tree[i]
             reduced_distance == ds[e.from, e.to] - pen[e.from] - pen[e.to]
         IN IF es[e.from, e.to] = Available /\ reduced_distance <= m.minimum_edge_distance
            THEN BranchScanLastOnTies(ds, es, pen, tree, i + 1,
                                      [minimum_edge_distance |-> reduced_distance,
                                       found |-> TRUE, minimum_edge |-> e])
            ELSE BranchScanLastOnTies(ds, es, pen, tree, i + 1, m)

\* BranchScan over the edges of any state
RECURSIVE BranchScanAnyState(_, _, _, _, _, _)
BranchScanAnyState(ds, es, pen, tree, i, m) ==
    IF i > Len(tree) THEN m
    ELSE LET e == tree[i]
             reduced_distance == ds[e.from, e.to] - pen[e.from] - pen[e.to]
         IN IF reduced_distance < m.minimum_edge_distance
            THEN BranchScanAnyState(ds, es, pen, tree, i + 1,
                                    [minimum_edge_distance |-> reduced_distance,
                                     found |-> TRUE, minimum_edge |-> e])
            ELSE BranchScanAnyState(ds, es, pen, tree, i + 1, m)

\* edge_to_branch_on: the first Available edge of the 1-tree of least reduced distance
RECURSIVE BranchScan(_, _, _, _, _, _)
BranchScan(ds, es, pen, tree, i, m) ==
    IF i > Len(tree) THEN m
    ELSE LET e == tree[i]
             reduced_distance == ds[e.from, e.to] - pen[e.from] - pen[e.to]
         IN IF es[e.from, e.to] = Available /\ reduced_distance < m.minimum_edge_distance
            THEN BranchScan(ds, es, pen, tree, i + 1,
                            [minimum_edge_distance |-> reduced_distance,
                             found |-> TRUE, minimum_edge |-> e])
            ELSE BranchScan(ds, es, pen, tree, i + 1, m)

edge_to_branch_on(ds, es, pen, tree) ==
    BranchScan(ds, es, pen, tree, 1,
               [minimum_edge_distance |-> ScaledMAX, found |-> FALSE,
                minimum_edge |-> UnEdge(0, 0)])

MinOf(S) == CHOOSE x \in S : \A y \in S : x <= y

\* initial_penalties: half the least distance at each node
initial_penalties(ds, n) ==
    [v \in Nodes(n) |->
        TruncDiv(MinOf({ScaledMAX} \cup
                       {ds[IF u > v THEN u ELSE v, IF u > v THEN v ELSE u] :
                            u \in Nodes(n) \ {v}}), 2)]

\* set_data_symmetric that leaves a Fixed cell as it is
set_data_symmetric_unless_fixed(m, from, to, data) ==
    IF m[from, to] = Fixed THEN m ELSE [m EXCEPT ![from, to] = data, ![to, from] = data]

\* set_data_symmetric writing the cell (from, to) only
set_data_one_way(m, from, to, data) == [m EXCEPT ![from, to] = data]

\* Matrix::set_data_symmetric
set_data_symmetric(m, from, to, data) == [m EXCEPT ![from, to] = data, ![to, from] = data]

\* the identity tour held_karp seeds best_tour with
InitialTour(d, n) ==
    LET edges == [i \in 1 .. n |-> UnEdge(i - 1, i % n)]
    IN [edges |-> edges, cost |-> RawCostFrom(edges, d, 1)]

NoLimit == -1

---------------------------------------------------------------------------
(* Graph helpers used to state the properties *)

Pairs(S) == {p \in S \X S : p[1] < p[2]}

\* the unordered pairs a list of edges covers
EdgePairs(t) ==
    {<<IF t[i].from < t[i].to THEN t[i].from ELSE t[i].to,
       IF t[i].from < t[i].to THEN t[i].to ELSE t[i].from>> : i \in 1 .. Len(t)}

RECURSIVE Reach(_, _)
Reach(R, P) ==
    LET R2 == R \cup {p[2] : p \in {q \in P : q[1] \in R}}
                \cup {p[1] : p \in {q \in P : q[2] \in R}}
    IN IF R2 = R THEN R ELSE Reach(R2, P)

\* P (a set of pairs) is a spanning tree of the node set S
IsSpanningTree(P, S) ==
    /\ P \subseteq Pairs(S)
    /\ Cardinality(P) = Cardinality(S) - 1
    /\ S # {} => Reach({CHOOSE x \in S : TRUE}, P) = S

\* P has a cycle: some edge joins two nodes the other edges already connect
HasCycle(P) == \E p \in P : p[2] \in Reach({p[1]}, P \ {p})

\* the sum of the function f over the set S of its arguments
RECURSIVE SumFn(_, _)
SumFn(f, S) ==
    IF S = {} THEN 0
    ELSE LET x == CHOOSE y \in S : TRUE IN f[x] + SumFn(f, S \ {x})

TreeNodes(n) == 1 .. (n - 1)

StateOf(es, p) == es[p[1], p[2]]

FixedPairs(es, S) == {p \in Pairs(S) : StateOf(es, p) = Fixed}

---------------------------------------------------------------------------
(* Inputs of the kernel calls *)

\* a symmetric matrix from a function on the unordered pairs, diag on the diagonal
SymMatrix(n, f, diag) ==
    [p \in Nodes(n) \X Nodes(n) |->
        IF p[1] = p[2] THEN diag
        ELSE IF p[1] < p[2] THEN f[p] ELSE f[<<p[2], p[1]>>]]

Abs(x) == IF x < 0 THEN -x ELSE x

\* the distance matrices of the kernel tests: constant zero, and the chain
\* (consecutive indices 0, everything else 1); and one with distinct rows
ZeroDist(n) == [p \in Pairs(Nodes(n)) |-> 0]
ChainDist(n) == [p \in Pairs(Nodes(n)) |-> IF p[1] + 1 = p[2] THEN 0 ELSE 1]
ModDist(n) == [p \in Pairs(Nodes(n)) |-> (p[1] * p[2]) % 3]

ZeroPen(n) == [v \in Nodes(n) |-> 0]
RampPen(n) == [v \in Nodes(n) |-> 16 * v - 32]

KernelCases(n) ==
    { <<ZeroDist(n), ZeroPen(n)>>, <<ChainDist(n), ZeroPen(n)>>,
      <<ModDist(n), RampPen(n)>>, <<ChainDist(n), RampPen(n)>> }

Pending == [fn |-> "none", out |-> None]

\* (A) arbitrary states of the edges among nodes 1..n-1, node 0's edges Available
TreeInitStates ==
    \E n \in 2 .. MaxDim :
      \E st \in [Pairs(TreeNodes(n)) -> EdgeState] :
        \E c \in KernelCases(n) :
          /\ dimension = n
          /\ distances = SymMatrix(n, c[1], 0)
          /\ scaled_distances = SymMatrix(n, [p \in Pairs(Nodes(n)) |-> from_distance(c[1][p])], 0)
          /\ edge_states = SymMatrix(n, [p \in Pairs(Nodes(n)) |->
                                IF p[1] = 0 THEN Available ELSE st[p]], Available)
          /\ node_penalties = c[2]

\* (B) every edge Available, free distances among nodes 1..n-1
TreeInitDistances ==
    \E n \in 2 .. MaxDistDim :
      \E d \in [Pairs(TreeNodes(n)) -> 0 .. MaxDist] :
        \E pen \in {ZeroPen(n), RampPen(n)} :
          /\ dimension = n
          /\ distances = SymMatrix(n, [p \in Pairs(Nodes(n)) |->
                                IF p[1] = 0 THEN 0 ELSE d[p]], 0)
          /\ scaled_distances = SymMatrix(n, [p \in Pairs(Nodes(n)) |->
                                IF p[1] = 0 THEN 0 ELSE from_distance(d[p])], 0)
          /\ edge_states = [p \in Nodes(n) \X Nodes(n) |-> Available]
          /\ node_penalties = pen

\* (C) the matrices of the kernel tests: one state in every cell
\* (EdgeDataMatrix::new_from_dimension_with_value)
TreeInitUniform ==
    \E n \in 2 .. MaxDim :
      \E st \in EdgeState :
        \E c \in KernelCases(n) :
          /\ dimension = n
          /\ distances = SymMatrix(n, c[1], 0)
          /\ scaled_distances = SymMatrix(n, [p \in Pairs(Nodes(n)) |-> from_distance(c[1][p])], 0)
          /\ edge_states = [p \in Nodes(n) \X Nodes(n) |-> st]
          /\ node_penalties = c[2]

\* (D) arbitrary states of every edge, node 0's edges included
TreeInitAllStates ==
    \E n \in 3 .. MaxDistDim :
      \E st \in [Pairs(Nodes(n)) -> EdgeState] :
        \E c \in {<<ChainDist(n), ZeroPen(n)>>, <<ChainDist(n), RampPen(n)>>} :
          /\ dimension = n
          /\ distances = SymMatrix(n, c[1], 0)
          /\ scaled_distances = SymMatrix(n, [p \in Pairs(Nodes(n)) |-> from_distance(c[1][p])], 0)
          /\ edge_states = SymMatrix(n, st, Available)
          /\ node_penalties = c[2]

TreeIdle ==
    /\ dimension = 0 /\ distances = <<>> /\ scaled_distances = <<>>
    /\ edge_states = <<>> /\ node_penalties = <<>> /\ tree_result = Pending

NoTour == [edges |-> <<>>, cost |-> 0]

TourIdle == tour_a = NoTour /\ tour_b = NoTour /\ eq_result = <<>>

NoMatrix == [data |-> <<>>, dimension |-> 0]

SymIdle == sym = NoMatrix /\ full = NoMatrix

FillIdle ==
    /\ fill_dimension = 0 /\ nthreads = 0 /\ build = "" /\ distance_data = <<>>
    /\ current_chunk_start = 0 /\ current_first_entry_index = 0
    /\ workers = <<>> /\ fill_pc = ""

FixedIdle == fp_value = 0 /\ fp_scaled = 0 /\ fp_back = 0 /\ fp_pc = ""

HeaderIdle ==
    /\ metadata_builder = <<>> /\ header_lines = 0 /\ line = <<>> /\ header_result = <<>>

SectionIdle ==
    /\ file_content = <<>> /\ index_in_map = 0 /\ is_float = <<>> /\ point_data = <<>>
    /\ section_result = <<>>

AuxIdle == FixedIdle /\ HeaderIdle /\ SectionIdle

SolverIdle ==
    /\ fixed_degrees = <<>> /\ upper_bound = 0 /\ best_tour = NoTour /\ bb_counter = 0
    /\ bb_limit = NoLimit /\ stack = <<>> /\ depth = 0 /\ pc = ""

NoOutput == [kind |-> "", lower_bound |-> 0, tree |-> <<>>, cost |-> 0]

BoundIdle ==
    /\ scaled_upper_bound = 0 /\ scaled_best_lower_bound = 0 /\ iter_count = 0
    /\ alpha = <<>> /\ node_penalty_sum = 0 /\ one_tree = None /\ one_tree_cost = 0
    /\ one_tree_penalties = <<>> /\ lb_output = NoOutput

TreeInit ==
    /\ entry = "trees"
    /\ tree_result = Pending
    /\ TourIdle /\ SymIdle /\ FillIdle /\ SolverIdle /\ BoundIdle /\ AuxIdle
    /\ (TreeInitStates \/ TreeInitDistances \/ TreeInitUniform \/ TreeInitAllStates)

CallMinSpanningTree ==
    /\ entry = "trees"
    /\ tree_result = Pending
    /\ tree_result' = [fn |-> "min_spanning_tree",
                       out |-> min_spanning_tree(scaled_distances, edge_states,
                                                 node_penalties, dimension)]
    /\ UNCHANGED <<entry, dimension, distances, scaled_distances, edge_states, node_penalties>>
    /\ UNCHANGED <<tourVars, symVars, fillVars, solverVars, boundVars>>
    /\ UNCHANGED auxVars

CallMinOneTree ==
    /\ entry = "trees"
    /\ tree_result = Pending
    /\ dimension >= 3
    /\ tree_result' = [fn |-> "min_one_tree",
                       out |-> min_one_tree(scaled_distances, edge_states,
                                            node_penalties, dimension)]
    /\ UNCHANGED <<entry, dimension, distances, scaled_distances, edge_states, node_penalties>>
    /\ UNCHANGED <<tourVars, symVars, fillVars, solverVars, boundVars>>
    /\ UNCHANGED auxVars

\* edge_to_branch_on called on the 1-tree that min_one_tree returned (as
\* explore_node does, mod.rs 239-240); out keeps the 1-tree, edge is the Option
CallEdgeToBranchOn ==
    /\ entry = "trees"
    /\ tree_result.fn = "min_one_tree" /\ tree_result.out.ok
    /\ LET b == edge_to_branch_on(scaled_distances, edge_states, node_penalties,
                                  tree_result.out.tree)
       IN tree_result' = [fn |-> "edge_to_branch_on", out |-> tree_result.out,
                          edge |-> IF b.found THEN <<b.minimum_edge>> ELSE <<>>]
    /\ UNCHANGED <<entry, dimension, distances, scaled_distances, edge_states, node_penalties>>
    /\ UNCHANGED <<tourVars, symVars, fillVars, solverVars, boundVars>>
    /\ UNCHANGED auxVars

vars == <<entry, treeVars, tourVars, symVars, fillVars, solverVars, boundVars, auxVars>>

TreeNext == CallMinSpanningTree \/ CallMinOneTree \/ CallEdgeToBranchOn

SpecTree == TreeInit /\ [][TreeNext]_vars

---------------------------------------------------------------------------
(* Properties of min_spanning_tree, checked under SpecTree *)

MstReturned == entry = "trees" /\ tree_result.fn = "min_spanning_tree"

TreeFixed == FixedPairs(edge_states, TreeNodes(dimension))

\* the reduced cost of a set of pairs: scaledDist - pi[u] - pi[v], summed
ReducedCost(P) ==
    SumFn([p \in P |-> scaled_distances[p[1], p[2]]
                          - node_penalties[p[1]] - node_penalties[p[2]]], P)

SpanningTrees(S) == {P \in SUBSET Pairs(S) : IsSpanningTree(P, S)}

AllAvailable(S) == \A p \in Pairs(S) : StateOf(edge_states, p) = Available

\* C4: whenever the Fixed edges among nodes 1..n-1 are a cycle-free set that
\* spans 1..n-1, whatever the states of the other edges, min_spanning_tree
\* returns a tree that consists of exactly the Fixed edges.
C4_FixedSpanningSetReturned ==
    (MstReturned /\ IsSpanningTree(TreeFixed, TreeNodes(dimension)))
        => (tree_result.out.ok /\ EdgePairs(tree_result.out.tree) = TreeFixed)

\* C5: with every edge Available, min_spanning_tree returns n-2 edges that form
\* a spanning tree of nodes 1..n-1 of minimal total reduced cost; on the chain
\* graph with zero penalties these are edges {i, i+1} only, of total weight 0.
C5_MstMinimalWhenAllAvailable ==
    (MstReturned /\ AllAvailable(Nodes(dimension)))
        => /\ tree_result.out.ok
           /\ Len(tree_result.out.tree) = dimension - 2
           /\ IsSpanningTree(EdgePairs(tree_result.out.tree), TreeNodes(dimension))
           /\ \A T \in SpanningTrees(TreeNodes(dimension)) :
                 ReducedCost(EdgePairs(tree_result.out.tree)) <= ReducedCost(T)
           /\ (distances = SymMatrix(dimension, ChainDist(dimension), 0)
                 /\ node_penalties = ZeroPen(dimension))
                => /\ \A p \in EdgePairs(tree_result.out.tree) : p[1] + 1 = p[2]
                   /\ ReducedCost(EdgePairs(tree_result.out.tree)) = 0

\* a call on an all-Available matrix where some spanning tree is dearer than
\* the returned one
C5_Witness ==
    /\ MstReturned /\ AllAvailable(Nodes(dimension)) /\ dimension >= 4
    /\ tree_result.out.ok
    /\ \E T \in SpanningTrees(TreeNodes(dimension)) :
          ReducedCost(EdgePairs(tree_result.out.tree)) < ReducedCost(T)

AllExcluded == \A p \in Nodes(dimension) \X Nodes(dimension) : edge_states[p] = Excluded

\* C6 as stated: for every dimension n >= 2, if every edge state is Excluded,
\* min_spanning_tree returns failure.
C6_AllExcludedFailsFromTwo ==
    (MstReturned /\ dimension >= 2 /\ AllExcluded) => ~tree_result.out.ok

\* C6 amended: for every dimension n >= 3, if every edge state is Excluded,
\* min_spanning_tree returns failure (for n = 2 the tree has the single node 1
\* and the empty tree is returned).
C6_AllExcludedFails ==
    (MstReturned /\ AllExcluded)
        => IF dimension >= 3 THEN ~tree_result.out.ok
           ELSE tree_result.out = Some(<<>>)

C6_Witness == MstReturned /\ AllExcluded /\ dimension >= 3 /\ ~tree_result.out.ok

\* C7: if the Fixed edges among nodes 1..n-1 contain a cycle, min_spanning_tree
\* returns failure, for any distances, penalties and states of the other edges.
C7_FixedCycleFails ==
    (MstReturned /\ HasCycle(TreeFixed)) => ~tree_result.out.ok

\* a Fixed cycle that leaves a node of 1..n-1 outside it
C7_Witness ==
    /\ MstReturned /\ HasCycle(TreeFixed) /\ ~tree_result.out.ok
    /\ \E v \in TreeNodes(dimension) : \A p \in TreeFixed : p[1] # v /\ p[2] # v

\* the spanning trees of S that use no Excluded edge and contain every Fixed
\* edge among S
AdmissibleSpanningTrees(S) ==
    {P \in SpanningTrees(S) :
        /\ \A p \in P : StateOf(edge_states, p) # Excluded
        /\ FixedPairs(edge_states, S) \subseteq P}

\* C16: min_spanning_tree returns failure only if no spanning tree of nodes
\* 1..n-1 uses no Excluded edge and contains every Fixed edge among them (the
\* next node of a round being the argmin of bestCost over all remaining nodes,
\* unreachability is reported only when all of them are at MAX).
C16_FailureOnlyIfNoAdmissibleTree ==
    (MstReturned /\ ~tree_result.out.ok) => AdmissibleSpanningTrees(TreeNodes(dimension)) = {}

---------------------------------------------------------------------------
(* Properties of min_one_tree, checked under SpecTree *)

OneTreeReturned ==
    entry = "trees" /\ tree_result.fn = "min_one_tree" /\ tree_result.out.ok

\* the returned edges: the tree among nodes 1..n-1 first, node 0's two edges last
ReturnedTreePart == SubSeq(tree_result.out.tree, 1, Len(tree_result.out.tree) - 2)

ReturnedZeroPart ==
    SubSeq(tree_result.out.tree, Len(tree_result.out.tree) - 1, Len(tree_result.out.tree))

\* the nodes that node 0 is attached to
ZeroNeighbors == {p[2] : p \in {q \in EdgePairs(ReturnedZeroPart) : q[1] = 0}}

NeighborsInState(st) == {v \in TreeNodes(dimension) : edge_states[0, v] = st}

ReducedDistance(v) == scaled_distances[0, v] - node_penalties[0] - node_penalties[v]

\* C17: for any penalties, min_one_tree attaches node 0 by its Fixed edges
\* first and otherwise by the Available edges of smallest reduced distance
\* scaledDist(0,v) - pi[0] - pi[v]: no Available neighbour left out has a
\* smaller reduced distance than an Available neighbour taken.
C17_ZeroEdgesBySmallestReducedDistance ==
    OneTreeReturned =>
        /\ NeighborsInState(Fixed) \subseteq ZeroNeighbors
        /\ ZeroNeighbors \subseteq NeighborsInState(Fixed) \cup NeighborsInState(Available)
        /\ \A v \in ZeroNeighbors \cap NeighborsInState(Available) :
             \A w \in NeighborsInState(Available) \ ZeroNeighbors :
                ReducedDistance(v) <= ReducedDistance(w)

---------------------------------------------------------------------------
(* Properties of edge_to_branch_on, checked under SpecTree *)

BranchReturned == entry = "trees" /\ tree_result.fn = "edge_to_branch_on"

\* the positions in the given 1-tree of the edges whose state is Available
AvailablePositions ==
    {i \in 1 .. Len(tree_result.out.tree) :
        edge_states[tree_result.out.tree[i].from, tree_result.out.tree[i].to] = Available}

ReducedAt(i) ==
    scaled_distances[tree_result.out.tree[i].from, tree_result.out.tree[i].to]
        - node_penalties[tree_result.out.tree[i].from]
        - node_penalties[tree_result.out.tree[i].to]

\* the positions of the Available edges of least reduced distance
MinimalPositions ==
    {i \in AvailablePositions : \A j \in AvailablePositions : ReducedAt(i) <= ReducedAt(j)}

\* C23: edge_to_branch_on returns the Available edge of the 1-tree with the
\* least reduced scaled distance d(u,v) - pi[u] - pi[v], the first one in the
\* order of the 1-tree on ties; never a Fixed or Excluded edge; and None
\* exactly when the 1-tree has no Available edge.
C23_BranchOnFirstCheapestAvailable ==
    BranchReturned =>
        IF AvailablePositions = {}
        THEN tree_result.edge = <<>>
        ELSE /\ tree_result.edge =
                  <<tree_result.out.tree[CHOOSE i \in MinimalPositions :
                                            \A j \in MinimalPositions : i <= j]>>
             /\ edge_states[tree_result.edge[1].from, tree_result.edge[1].to] = Available

\* the edge returned is followed by an Available edge of the same reduced
\* distance and the 1-tree has a Fixed edge of smaller reduced distance
C23_Witness ==
    /\ BranchReturned /\ tree_result.edge # <<>>
    /\ \E i, j \in MinimalPositions : i < j
    /\ \E k \in (1 .. Len(tree_result.out.tree)) \ AvailablePositions :
          \A i \in MinimalPositions : ReducedAt(k) < ReducedAt(i)

---------------------------------------------------------------------------
(* Comparing two tours: tsp-core instance/mod.rs *)

TourEdges == {UnEdge(u, v) : <<u, v>> \in {p \in (0 .. MaxTourNode) \X (0 .. MaxTourNode) : p[1] # p[2]}}

EdgeLists == UNION {[1 .. k -> TourEdges] : k \in 1 .. MaxTourLen}

Tours == [edges : EdgeLists, cost : 0 .. MaxCost]

TourInit ==
    /\ entry = "tours"
    /\ tour_a \in Tours
    /\ tour_b \in Tours
    /\ eq_result = <<>>
    /\ TreeIdle /\ SymIdle /\ FillIdle /\ SolverIdle /\ BoundIdle /\ AuxIdle

\* both orders of the comparison, as `a == b` and `b == a` evaluate them
CompareTours ==
    /\ entry = "tours"
    /\ eq_result = <<>>
    /\ eq_result' = [ab |-> UnTourEq(tour_a, tour_b), ba |-> UnTourEq(tour_b, tour_a)]
    /\ UNCHANGED <<entry, tour_a, tour_b, treeVars, symVars, fillVars, solverVars, boundVars>>
    /\ UNCHANGED auxVars

TourNext == CompareTours

SpecTour == TourInit /\ [][TourNext]_vars

\* how often the unordered pair of e occurs in the edge list
Multiplicity(edges, e) == Cardinality({i \in 1 .. Len(edges) : UnEdgeEq(edges[i], e)})

SameEdgeMultiset(a, b) ==
    /\ Len(a.edges) = Len(b.edges)
    /\ \A e \in TourEdges : Multiplicity(a.edges, e) = Multiplicity(b.edges, e)

\* C10: two UnTour values are equal exactly when their costs and their edge
\* multisets (edge order and orientation ignored) are equal; in particular
\* a == b if and only if b == a, also with repeated edges in a list.
C10_EqIsMultisetEquality ==
    (entry = "tours" /\ eq_result # <<>>)
        => /\ eq_result.ab = (tour_a.cost = tour_b.cost /\ SameEdgeMultiset(tour_a, tour_b))
           /\ eq_result.ab = eq_result.ba

---------------------------------------------------------------------------
(* Converting a symmetric matrix: tsp-core instance/edge/data/symmetric.rs *)

SymInit ==
    /\ entry = "sym"
    /\ \E n \in 1 .. MaxSymDim :
         \E d \in [0 .. ((n * (n + 1)) \div 2 - 1) -> 0 .. MaxCell] :
           sym = [data |-> d, dimension |-> n]
    /\ full = NoMatrix
    /\ TreeIdle /\ TourIdle /\ FillIdle /\ SolverIdle /\ BoundIdle /\ AuxIdle

ToEdgeDataMatrix ==
    /\ entry = "sym"
    /\ full = NoMatrix
    /\ full' = to_edge_data_matrix(sym)
    /\ UNCHANGED <<entry, sym, treeVars, tourVars, fillVars, solverVars, boundVars>>
    /\ UNCHANGED auxVars

SymNext == ToEdgeDataMatrix

SpecSym == SymInit /\ [][SymNext]_vars

\* C9: for every symmetric matrix of dimension n >= 1 and all r, c in [0, n),
\* r = c included, the converted matrix has full.get(r,c) = sym.get(r,c) =
\* full.get(c,r).
C9_FullAgreesWithSym ==
    (entry = "sym" /\ full # NoMatrix)
        => \A r, c \in Nodes(sym.dimension) :
             /\ GetData(full, r, c) = SymGetData(sym, r, c)
             /\ GetData(full, r, c) = GetData(full, c, r)

---------------------------------------------------------------------------
(* Filling the distance matrix: tsp-parser distance_container/matrix.rs *)

FillInit ==
    /\ entry = "fill"
    /\ fill_dimension \in 1 .. MaxFillDim
    /\ nthreads \in 1 .. MaxThreads
    /\ build \in {"debug", "release"}
    /\ distance_data = ZeroData(fill_dimension)
    /\ current_chunk_start = 0
    /\ current_first_entry_index = 0
    /\ workers = <<>>
    /\ fill_pc = "called"
    /\ TreeIdle /\ TourIdle /\ SymIdle /\ SolverIdle /\ BoundIdle /\ AuxIdle

total_size == fill_dimension * fill_dimension

number_of_entries == (fill_dimension * (fill_dimension + 1)) \div 2

entries_per_chunk == div_ceil(number_of_entries, nthreads)

\* the branch total_size < PARALLELISM_BOUND: one chunk in the calling thread,
\* then the mirroring loop
FillInThread ==
    /\ entry = "fill" /\ fill_pc = "called"
    /\ total_size < PARALLELISM_BOUND
    /\ distance_data' = SequentialFill(fill_dimension)
    /\ fill_pc' = "returned"
    /\ UNCHANGED <<entry, fill_dimension, nthreads, build, current_chunk_start,
                   current_first_entry_index, workers, treeVars, tourVars, symVars,
                   solverVars, boundVars>>
    /\ UNCHANGED auxVars

\* one iteration of the spawning loop (matrix.rs 57-90)
SpawnChunk ==
    /\ entry = "fill" /\ fill_pc = "called"
    /\ total_size >= PARALLELISM_BOUND
    /\ current_first_entry_index < number_of_entries
    /\ LET last_entry_this_chunk ==
               Min(number_of_entries - 1, current_first_entry_index + entries_per_chunk - 1)
           e == find_row_column_from_lower_triangle_index(last_entry_this_chunk)
           current_chunk_size == e[1] * fill_dimension + e[2] + 1 - current_chunk_start
           number_of_entries_current_chunk == last_entry_this_chunk - current_first_entry_index + 1
       IN /\ workers' = Append(workers,
                 [chunk_start_index |-> current_chunk_start,
                  first_entry_index |-> current_first_entry_index,
                  number_of_entries_in_chunk |-> number_of_entries_current_chunk,
                  chunk_len |-> current_chunk_size,
                  state |-> "spawned"])
          /\ current_first_entry_index' = current_first_entry_index + entries_per_chunk
          /\ current_chunk_start' = current_chunk_start + current_chunk_size
    /\ UNCHANGED <<entry, fill_dimension, nthreads, build, distance_data, fill_pc,
                   treeVars, tourVars, symVars, solverVars, boundVars>>
    /\ UNCHANGED auxVars

\* a spawned worker runs compute_dists_from_node_coords_chunk on its slice.
\* A write outside the slice is undefined behaviour in a release build (the
\* unchecked write lands in the neighbouring slice of the same vector) and a
\* panic in a debug build.
WorkerRun(w) ==
    /\ entry = "fill" /\ fill_pc = "called"
    /\ w \in 1 .. Len(workers)
    /\ workers[w].state = "spawned"
    /\ IF OutOfChunk(workers[w], fill_dimension) # {} /\ build = "debug"
       THEN /\ workers' = [workers EXCEPT ![w].state = "panicked"]
            /\ UNCHANGED distance_data
       ELSE /\ workers' = [workers EXCEPT ![w].state = "finished"]
            /\ distance_data' = WriteChunk(distance_data, workers[w].first_entry_index,
                                           workers[w].number_of_entries_in_chunk,
                                           fill_dimension)
    /\ UNCHANGED <<entry, fill_dimension, nthreads, build, current_chunk_start,
                   current_first_entry_index, fill_pc, treeVars, tourVars, symVars,
                   solverVars, boundVars>>
    /\ UNCHANGED auxVars

\* the end of thread::scope (every worker joined; a worker's panic is
\* propagated) and the mirroring loop
JoinAndMirror ==
    /\ entry = "fill" /\ fill_pc = "called"
    /\ total_size >= PARALLELISM_BOUND
    /\ current_first_entry_index >= number_of_entries
    /\ \A w \in 1 .. Len(workers) : workers[w].state # "spawned"
    /\ IF \E w \in 1 .. Len(workers) : workers[w].state = "panicked"
       THEN fill_pc' = "panicked" /\ UNCHANGED distance_data
       ELSE fill_pc' = "returned" /\ distance_data' = Mirror(distance_data, fill_dimension)
    /\ UNCHANGED <<entry, fill_dimension, nthreads, build, current_chunk_start,
                   current_first_entry_index, workers, treeVars, tourVars, symVars,
                   solverVars, boundVars>>
    /\ UNCHANGED auxVars

FillNext ==
    \/ FillInThread
    \/ SpawnChunk
    \/ \E w \in 1 .. MaxThreads : WorkerRun(w)
    \/ JoinAndMirror

SpecFill == FillInit /\ [][FillNext]_vars

\* C8: for every n and every number of worker chunks the chunked fill produces
\* the matrix of the single-chunk fill: every off-diagonal cell (r,c) and its
\* mirror hold distance_function(point r, point c), every diagonal cell is 0.
C8_ChunkedFillEqualsSequential ==
    (entry = "fill" /\ fill_pc = "returned")
        => /\ distance_data = SequentialFill(fill_dimension)
           /\ \A r, c \in Nodes(fill_dimension) :
                 distance_data[r * fill_dimension + c] =
                     IF r = c THEN 0
                     ELSE IF r > c THEN distance_function(r, c, fill_dimension)
                     ELSE distance_function(c, r, fill_dimension)

---------------------------------------------------------------------------
(* held_karp: the branch-and-bound search. The recursion of explore_node is a
   stack of frames; the running activation is at pc:
     "enter"  at the head of explore_node,
     "lb"     inside the loop of held_karp_lower_bound,
     "decide" at the match on its result,
     "return" returning to the caller's frame,
     "done"   held_karp has returned best_tour. *)

\* the instances: distance 1 on the edges of H, distance 0 elsewhere
HeavyDist(n, H) == [p \in Pairs(Nodes(n)) |-> IF p \in H THEN 1 ELSE 0]

\* the instances <<n, H>> with at most MaxHeavy heavy edges
SparseInstances ==
    UNION {{<<n, H>> : H \in {G \in SUBSET Pairs(Nodes(n)) : Cardinality(G) <= MaxHeavy}} :
              n \in 3 .. MaxNodes}

\* two instances on six nodes with many heavy edges, on which explore_node
\* skips a Fixed branch (a fixed degree is 2) and finds a node infeasible (no
\* 1-tree): every edge heavy but six at the nodes 0 and 1; the edge {0,1} and
\* every edge at node 4 heavy
DenseInstances ==
    { <<6, Pairs(Nodes(6)) \ {<<0, 1>>, <<0, 2>>, <<0, 3>>, <<0, 4>>, <<1, 3>>, <<1, 4>>}>>,
      <<6, {<<0, 1>>} \cup {p \in Pairs(Nodes(6)) : p[1] = 4 \/ p[2] = 4}>> }

\* held_karp up to its call of explore_node (mod.rs 101-146)
Init ==
    /\ entry = "held_karp"
    /\ \E inst \in SparseInstances \cup DenseInstances :
         LET n == inst[1]
             H == inst[2]
         IN
           /\ dimension = n
           /\ distances = SymMatrix(n, HeavyDist(n, H), 0)
           /\ scaled_distances =
                  SymMatrix(n, [p \in Pairs(Nodes(n)) |-> from_distance(HeavyDist(n, H)[p])],
                            from_distance(0))
           /\ edge_states = [p \in Nodes(n) \X Nodes(n) |-> Available]
           /\ node_penalties = initial_penalties(scaled_distances, n)
           /\ fixed_degrees = [v \in Nodes(n) |-> 0]
           /\ bb_counter = 0
           /\ upper_bound = InitialTour(distances, n).cost
           /\ best_tour = InitialTour(distances, n)
    /\ bb_limit = NoLimit
    /\ stack = <<>> /\ depth = 0 /\ pc = "enter"
    /\ tree_result = Pending
    /\ BoundIdle /\ TourIdle /\ SymIdle /\ FillIdle /\ AuxIdle

\* the cap of the first call, used at every depth
max_iterations_of_root == INITIAL_MAX_ITERATIONS

max_iterations == IF depth = 0 THEN INITIAL_MAX_ITERATIONS ELSE MAX_ITERATIONS
beta == IF depth = 0 THEN INITIAL_BETA ELSE BETA

\* explore_node, from its head to the call of held_karp_lower_bound and that
\* function's prologue (mod.rs 190-211, 317-326)
ExploreEnter ==
    /\ entry = "held_karp" /\ pc = "enter"
    /\ bb_counter' = bb_counter + 1
    /\ IF bb_limit # NoLimit /\ bb_counter' >= bb_limit
       THEN /\ pc' = "return"
            /\ UNCHANGED boundVars
       ELSE /\ pc' = "lb"
            /\ scaled_upper_bound' = from_distance(upper_bound)
            /\ scaled_best_lower_bound' = ScaledMIN
            /\ iter_count' = 0
            /\ alpha' = INITIAL_ALPHA
            /\ node_penalty_sum' = SumVec(node_penalties, dimension)
            /\ one_tree' = None /\ one_tree_cost' = 0 /\ one_tree_penalties' = <<>>
            /\ lb_output' = NoOutput
    /\ UNCHANGED <<entry, treeVars, tourVars, symVars, fillVars, fixed_degrees, upper_bound,
                   best_tour, bb_limit, stack, depth>>
    /\ UNCHANGED auxVars

LowerBound(lower_bound, tree) ==
    [kind |-> "LowerBound", lower_bound |-> lower_bound, tree |-> tree, cost |-> 0]
Tour(tree, cost) == [kind |-> "Tour", lower_bound |-> 0, tree |-> tree, cost |-> cost]
Infeasible == [kind |-> "None", lower_bound |-> 0, tree |-> <<>>, cost |-> 0]

\* one pass through the loop of held_karp_lower_bound (mod.rs 328-419)
LowerBoundIteration ==
    /\ entry = "held_karp" /\ pc = "lb"
    /\ LET ot == min_one_tree(scaled_distances, edge_states, node_penalties, dimension)
           cost == OneTreeCost(ot.tree, scaled_distances, node_penalties, node_penalty_sum)
           best == IF cost > scaled_best_lower_bound THEN cost ELSE scaled_best_lower_bound
           deg == Deg(ot.tree, dimension)
           square_sum == SquareSum(deg, dimension)
           step_size == StepSize(alpha, scaled_upper_bound - cost, square_sum)
           break == LowerBound(to_distance_rounded_up(best), ot.tree)
       IN /\ one_tree' = ot
          /\ one_tree_penalties' = node_penalties
          /\ IF ~ot.ok
             THEN /\ lb_output' = Infeasible /\ pc' = "decide"
                  /\ UNCHANGED <<one_tree_cost, scaled_best_lower_bound, iter_count, alpha,
                                 node_penalties>>
             ELSE /\ one_tree_cost' = cost
                  /\ scaled_best_lower_bound' = best
                  /\ IF cost >= scaled_upper_bound
                     THEN /\ lb_output' = break /\ pc' = "decide"
                          /\ UNCHANGED <<iter_count, alpha, node_penalties>>
                     ELSE IF square_sum = 0
                     THEN /\ lb_output' = Tour(ot.tree, TourCost(ot.tree, distances))
                          /\ pc' = "decide"
                          /\ UNCHANGED <<iter_count, alpha, node_penalties>>
                     ELSE /\ iter_count' = iter_count + 1
                          /\ IF iter_count' >= max_iterations \/ step_size <= 3
                             THEN /\ lb_output' = break /\ pc' = "decide"
                                  /\ UNCHANGED <<alpha, node_penalties>>
                             ELSE /\ alpha' = AlphaTimesBeta(alpha, beta)
                                  /\ node_penalties' =
                                         [v \in Nodes(dimension) |->
                                             node_penalties[v] + step_size * deg[v]]
                                  /\ pc' = "lb"
                                  /\ UNCHANGED lb_output
    /\ UNCHANGED <<entry, dimension, distances, scaled_distances, edge_states, tree_result,
                   tourVars, symVars, fillVars, fixed_degrees, upper_bound, best_tour,
                   bb_counter, bb_limit, stack, depth, scaled_upper_bound, node_penalty_sum>>
    /\ UNCHANGED auxVars

\* what a recursive call of explore_node is entered with (mod.rs 249-260,
\* 276-287): the caller's frame keeps it, to state what holds when the call returns
AtCall(es, fd, pen) == [edge_states |-> es, fixed_degrees |-> fd, node_penalties |-> pen]

\* explore_node from the match on the bound's result to the first recursive
\* call (mod.rs 213-261)
ExploreDecide ==
    /\ entry = "held_karp" /\ pc = "decide"
    /\ LET b == edge_to_branch_on(scaled_distances, edge_states, node_penalties, lb_output.tree)
           branching_edge == b.minimum_edge
       IN IF lb_output.kind = "Tour"
          THEN /\ upper_bound' = lb_output.cost
               /\ best_tour' = [edges |-> lb_output.tree, cost |-> lb_output.cost]
               /\ pc' = "return"
               /\ UNCHANGED <<edge_states, stack, depth>>
          ELSE IF \/ lb_output.kind = "None"
                  \/ lb_output.lower_bound >= upper_bound
                  \/ ~b.found
          THEN /\ pc' = "return"
               /\ UNCHANGED <<upper_bound, best_tour, edge_states, stack, depth>>
          ELSE /\ edge_states' = set_data_symmetric(edge_states, branching_edge.from,
                                                    branching_edge.to, Excluded)
               /\ stack' = Append(stack, [branching_edge |-> branching_edge,
                                          branch |-> "excluded", depth |-> depth,
                                          at_call |-> AtCall(edge_states', fixed_degrees,
                                                             node_penalties)])
               /\ depth' = depth + 1
               /\ pc' = "enter"
               /\ UNCHANGED <<upper_bound, best_tour>>
    /\ UNCHANGED <<entry, dimension, distances, scaled_distances, node_penalties, tree_result,
                   tourVars, symVars, fillVars, fixed_degrees, bb_counter, bb_limit, boundVars>>
    /\ UNCHANGED auxVars

\* ExploreReturn without the test of the fixed degrees before the Fixed branch
ExploreReturnUnchecked ==
    /\ entry = "held_karp" /\ pc = "return"
    /\ IF stack = <<>>
       THEN /\ pc' = "done"
            /\ UNCHANGED <<edge_states, fixed_degrees, stack, depth>>
       ELSE LET frame == stack[Len(stack)]
                from == frame.branching_edge.from
                to == frame.branching_edge.to
            IN IF frame.branch = "excluded"
               THEN IF TRUE
                    THEN /\ edge_states' = set_data_symmetric(edge_states, from, to, Fixed)
                         /\ fixed_degrees' = [fixed_degrees EXCEPT ![from] = @ + 1,
                                                                   ![to] = @ + 1]
                         /\ stack' = [stack EXCEPT ![Len(stack)].branch = "fixed",
                                                   ![Len(stack)].at_call =
                                                       AtCall(edge_states', fixed_degrees',
                                                              node_penalties)]
                         /\ depth' = frame.depth + 1
                         /\ pc' = "enter"
                    ELSE /\ edge_states' = set_data_symmetric(edge_states, from, to, Available)
                         /\ stack' = SubSeq(stack, 1, Len(stack) - 1)
                         /\ depth' = frame.depth
                         /\ pc' = "return"
                         /\ UNCHANGED fixed_degrees
               ELSE /\ edge_states' = set_data_symmetric(edge_states, from, to, Available)
                    /\ fixed_degrees' = [fixed_degrees EXCEPT ![from] = @ - 1, ![to] = @ - 1]
                    /\ stack' = SubSeq(stack, 1, Len(stack) - 1)
                    /\ depth' = frame.depth
                    /\ pc' = "return"
    /\ UNCHANGED <<entry, dimension, distances, scaled_distances, node_penalties, tree_result,
                   tourVars, symVars, fillVars, upper_bound, best_tour, bb_counter, bb_limit,
                   boundVars>>
    /\ UNCHANGED auxVars

\* a recursive call returns into the frame on top of the stack (mod.rs 263-299);
\* with no frame left explore_node returns to held_karp, which returns best_tour
ExploreReturn ==
    /\ entry = "held_karp" /\ pc = "return"
    /\ IF stack = <<>>
       THEN /\ pc' = "done"
            /\ UNCHANGED <<edge_states, fixed_degrees, stack, depth>>
       ELSE LET frame == stack[Len(stack)]
                from == frame.branching_edge.from
                to == frame.branching_edge.to
            IN IF frame.branch = "excluded"
               THEN IF fixed_degrees[from] < 2 /\ fixed_degrees[to] < 2
                    THEN /\ edge_states' = set_data_symmetric(edge_states, from, to, Fixed)
                         /\ fixed_degrees' = [fixed_degrees EXCEPT ![from] = @ + 1,
                                                                   ![to] = @ + 1]
                         /\ stack' = [stack EXCEPT ![Len(stack)].branch = "fixed",
                                                   ![Len(stack)].at_call =
                                                       AtCall(edge_states', fixed_degrees',
                                                              node_penalties)]
                         /\ depth' = frame.depth + 1
                         /\ pc' = "enter"
                    ELSE /\ edge_states' = set_data_symmetric(edge_states, from, to, Available)
                         /\ stack' = SubSeq(stack, 1, Len(stack) - 1)
                         /\ depth' = frame.depth
                         /\ pc' = "return"
                         /\ UNCHANGED fixed_degrees
               ELSE /\ edge_states' = set_data_symmetric(edge_states, from, to, Available)
                    /\ fixed_degrees' = [fixed_degrees EXCEPT ![from] = @ - 1, ![to] = @ - 1]
                    /\ stack' = SubSeq(stack, 1, Len(stack) - 1)
                    /\ depth' = frame.depth
                    /\ pc' = "return"
    /\ UNCHANGED <<entry, dimension, distances, scaled_distances, node_penalties, tree_result,
                   tourVars, symVars, fillVars, upper_bound, best_tour, bb_counter, bb_limit,
                   boundVars>>
    /\ UNCHANGED auxVars

Next ==
    \/ ExploreEnter
    \/ LowerBoundIteration
    \/ ExploreDecide
    \/ ExploreReturn

Spec == Init /\ [][Next]_vars

\* held_karp is one sequential call without suspension points: a step that can
\* be taken is taken.  This is weak fairness of each of the four actions; for
\* LowerBoundIteration it is written out, the action being enabled exactly at
\* pc = "lb" and changing vars at every step.
SpecFair ==
    /\ Spec
    /\ WF_vars(ExploreEnter) /\ WF_vars(ExploreDecide) /\ WF_vars(ExploreReturn)
    /\ ([]<>(pc # "lb") \/ []<><<LowerBoundIteration>>_vars)

---------------------------------------------------------------------------
(* Hamiltonian cycles, to state what held_karp returns *)

\* the orders in which the nodes of S can be visited
RECURSIVE Perms(_)
Perms(S) ==
    IF S = {} THEN {<<>>}
    ELSE UNION {{<<x>> \o p : p \in Perms(S \ {x})} : x \in S}

\* the edges of the closed walk through the nodes of the sequence w
CyclePairs(w) ==
    {<<IF w[i] < w[(i % Len(w)) + 1] THEN w[i] ELSE w[(i % Len(w)) + 1],
       IF w[i] < w[(i % Len(w)) + 1] THEN w[(i % Len(w)) + 1] ELSE w[i]>> :
        i \in 1 .. Len(w)}

\* every Hamiltonian cycle on the nodes 0..n-1, as its set of edges
HamiltonianCycles(n) == {CyclePairs(<<0>> \o p) : p \in Perms(1 .. (n - 1))}

\* the cost of a set of edges under the matrix d
PairCost(P, d) == SumFn([p \in P |-> d[p[1], p[2]]], P)

\* the list of edges is one Hamiltonian cycle on the nodes 0..n-1
IsHamiltonianCycle(edges, n) ==
    /\ Len(edges) = n
    /\ \A i \in 1 .. Len(edges) :
          edges[i].from \in Nodes(n) /\ edges[i].to \in Nodes(n) /\ edges[i].from # edges[i].to
    /\ EdgePairs(edges) \in HamiltonianCycles(n)

Returned == entry = "held_karp" /\ pc = "done"

\* C1: for every symmetric non-negative distance matrix with n >= 3 the tour
\* held_karp returns is optimal: its cost is the least cost of a Hamiltonian
\* cycle on the nodes 0..n-1.
C1_ReturnsOptimalTour ==
    Returned =>
        best_tour.cost = MinOf({PairCost(T, distances) : T \in HamiltonianCycles(dimension)})

\* C2: held_karp returns Some(tour), never None; the tour has exactly n edges,
\* they form one Hamiltonian cycle on the nodes 0..n-1, and tour.cost is the
\* sum of the raw distances of its edges.
C2_ReturnsHamiltonianCycle ==
    Returned =>
        /\ best_tour # NoTour
        /\ Len(best_tour.edges) = dimension
        /\ IsHamiltonianCycle(best_tour.edges, dimension)
        /\ best_tour.cost = PairCost(EdgePairs(best_tour.edges), distances)

\* held_karp has returned a tour that a lower-bound computation found, after
\* branching, in an instance where tours differ in cost
C2_Witness ==
    /\ Returned
    /\ bb_counter > 1
    /\ best_tour.edges # InitialTour(distances, dimension).edges
    /\ \E T \in HamiltonianCycles(dimension) : PairCost(T, distances) > best_tour.cost

\* the Hamiltonian cycles with every Fixed edge and no Excluded edge
FeasibleTours ==
    {T \in HamiltonianCycles(dimension) :
        /\ \A p \in T : StateOf(edge_states, p) # Excluded
        /\ FixedPairs(edge_states, Nodes(dimension)) \subseteq T}

\* L = 2 * sum(pi) + sum over the 1-tree's edges of scaledDist(u,v) - pi[u] - pi[v],
\* for the 1-tree of the last iteration and the penalties it was built under
LagrangianValue ==
    2 * SumVec(one_tree_penalties, dimension)
    + EdgeCostSum(one_tree.tree, scaled_distances, one_tree_penalties, 1)

\* C3: in every iteration of held_karp_lower_bound the Lagrangian value L of
\* the 1-tree is at most the scaled cost of every Hamiltonian cycle that has
\* all Fixed edges and no Excluded edge, and the lower bound returned is at
\* most the cost of every such tour.
C3_LagrangianBelowFeasibleTours ==
    (entry = "held_karp" /\ pc \in {"lb", "decide"} /\ one_tree.ok) =>
        \A T \in FeasibleTours :
            /\ one_tree_cost = LagrangianValue
            /\ LagrangianValue <= PairCost(T, scaled_distances)
            /\ lb_output.kind = "LowerBound" => lb_output.lower_bound <= PairCost(T, distances)

---------------------------------------------------------------------------
(* Fixed-point conversion: tsp-core instance/edge/distance *)

\* the Distance values the conversions are called on: windows at 0, at
\* Distance::MAX (both sides of it) and at every power of two of an i32
FixedInputs ==
    (-MaxProbe .. MaxProbe)
    \cup ((DistanceMAX - MaxProbe) .. (DistanceMAX + MaxProbe))
    \cup {2 ^ j + e : j \in 1 .. 30, e \in {-1, 0, 1}}
    \cup {ScaledMAX - e : e \in 0 .. MaxProbe}

FixedInit ==
    /\ entry = "fixed_point"
    /\ fp_value \in FixedInputs
    /\ fp_scaled = 0 /\ fp_back = 0 /\ fp_pc = "input"
    /\ TreeIdle /\ TourIdle /\ SymIdle /\ FillIdle /\ SolverIdle /\ BoundIdle
    /\ HeaderIdle /\ SectionIdle

CallFromDistance ==
    /\ entry = "fixed_point" /\ fp_pc = "input"
    /\ fp_scaled' = from_distance(fp_value)
    /\ fp_pc' = "scaled"
    /\ UNCHANGED <<entry, fp_value, fp_back, treeVars, tourVars, symVars, fillVars,
                   solverVars, boundVars, headerVars, sectionVars>>

CallToDistance ==
    /\ entry = "fixed_point" /\ fp_pc = "scaled"
    /\ fp_back' = to_distance(fp_scaled)
    /\ fp_pc' = "back"
    /\ UNCHANGED <<entry, fp_value, fp_scaled, treeVars, tourVars, symVars, fillVars,
                   solverVars, boundVars, headerVars, sectionVars>>

\* to_distance_rounded_up, applied to the value handed in or to the result of
\* from_distance.  An overflowing addition panics in a build with overflow
\* checks and wraps in a build without.
CallToDistanceRoundedUp ==
    /\ entry = "fixed_point" /\ fp_pc \in {"input", "scaled"}
    /\ LET s == IF fp_pc = "input" THEN fp_value ELSE fp_scaled
       IN /\ fp_scaled' = s
          /\ IF to_distance_rounded_up_overflows(s)
             THEN \/ fp_pc' = "up_panicked" /\ UNCHANGED fp_back
                  \/ fp_pc' = "up_wrapped" /\ fp_back' = to_distance_rounded_up(s)
             ELSE fp_pc' = "up" /\ fp_back' = to_distance_rounded_up(s)
    /\ UNCHANGED <<entry, fp_value, treeVars, tourVars, symVars, fillVars,
                   solverVars, boundVars, headerVars, sectionVars>>

FixedNext == CallFromDistance \/ CallToDistance \/ CallToDistanceRoundedUp

SpecFixed == FixedInit /\ [][FixedNext]_vars

\* C11: under 32-bit signed arithmetic to_distance(from_distance(d)) = d for
\* every 0 <= d <= Distance::MAX (= i32::MAX >> 5), and from_distance does not
\* overflow on that range: the scaled value is d * 2^5 exactly.
C11_RoundTripUpToDistanceMax ==
    (entry = "fixed_point" /\ fp_pc = "back" /\ 0 <= fp_value /\ fp_value <= DistanceMAX)
        => /\ fp_back = fp_value
           /\ fp_scaled = fp_value * (2 ^ FIXED_POINT_FRACTIONAL_BITS)
           /\ fp_scaled <= ScaledMAX

\* the round trip of Distance::MAX itself
C11_Witness ==
    /\ entry = "fixed_point" /\ fp_pc = "back"
    /\ fp_value = DistanceMAX /\ fp_back = DistanceMAX /\ fp_scaled > 0

---------------------------------------------------------------------------
(* The header parser: tsp-parser metadata/mod.rs and
   metadata_parser/metadata_builder.rs. A line is [colon, keyword, value]:
   the text before and after the first ':' (trimmed), or a line without ':'.
   Option<T> is a sequence of length 0 or 1. *)

Ok(v) == [kind |-> "ok", value |-> v]
Err(e) == [kind |-> "err", error |-> e]
Panic(e) == [kind |-> "panic", error |-> e]

\* str::parse::<u32> on the decimal tokens of the headers that are drawn
DecimalTokens == [t \in {"0", "3", "52"} |-> IF t = "0" THEN 0 ELSE IF t = "3" THEN 3 ELSE 52]

parse_u32(value) ==
    IF value \in DOMAIN DecimalTokens THEN Ok(DecimalTokens[value]) ELSE Err("ParseIntError")

parse_problem_type(input) ==
    IF input \in {"TSP", "ATSP", "SOP", "HCP", "TOUR"} THEN Ok(input)
    ELSE Err("InvalidProblemType")

parse_edge_weight_type(input) ==
    IF input \in {"EXPLICIT", "EUC_2D", "EUC_3D", "MAX_2D", "MAX_3D", "MAN_2D", "MAN_3D",
                  "CEIL_2D", "GEO", "ATT", "XRAY1", "XRAY2", "SPECIAL"}
    THEN Ok(input) ELSE Err("InvalidEdgeWeightType")

parse_edge_weight_format(input) ==
    IF input \in {"FUNCTION", "FULL_MATRIX", "UPPER_ROW", "LOWER_ROW", "UPPER_DIAG_ROW",
                  "LOWER_DIAG_ROW", "UPPER_COL", "LOWER_COL", "UPPER_DIAG_COL",
                  "LOWER_DIAG_COL"}
    THEN Ok(input) ELSE Err("InvalidEdgeWeightFormat")

parse_edge_data_format(input) ==
    IF input \in {"EDGE_LIST", "ADJ_LIST"} THEN Ok(input) ELSE Err("InvalidEdgeDataFormat")

parse_node_coord_type(input) ==
    IF input \in {"TWOD_COORDS", "THREED_COORDS", "NO_COORDS"} THEN Ok(input)
    ELSE Err("InvalidNodeCoordType")

parse_display_data_type(input) ==
    IF input \in {"COORD_DISPLAY", "TWOD_DISPLAY", "NO_DISPLAY"} THEN Ok(input)
    ELSE Err("InvalidDisplayDataType")

parse_data_keyword(input) ==
    IF input \in {"NODE_COORD_SECTION", "DEPOT_SECTION", "DEMAND_SECTION", "EDGE_DATA_SECTION",
                  "DISPLAY_DATA_SECTION", "TOUR_SECTION", "EDGE_WEIGHT_SECTION"}
    THEN Ok(input)
    ELSE IF input = "FIXED_EDGES_SECTION"
    THEN Panic("not implemented: Fixed edges sections are not supported yet")
    ELSE Err("InvalidKeyword")

\* InstanceMetadataBuilder::new
NewBuilder ==
    [name |-> <<>>, problem_type |-> <<>>, comment |-> <<>>, dimension |-> <<>>,
     capacity |-> <<>>, edge_weight_type |-> <<>>, edge_weight_format |-> <<>>,
     edge_data_format |-> <<>>, node_coord_type |-> <<>>, display_data_type |-> <<>>]

\* the setter of one field after the parse of its value: Ok(builder) or the error
SetField(builder, field, parsed, error) ==
    IF parsed.kind = "ok" THEN Ok([builder EXCEPT ![field] = <<parsed.value>>])
    ELSE Err(error)

\* parse_specification: Ok(builder with the field set) or the error
parse_specification(keyword, value, builder) ==
    CASE keyword = "NAME" -> Ok([builder EXCEPT !.name = <<value>>])
      [] keyword = "TYPE" ->
            SetField(builder, "problem_type", parse_problem_type(value), "InvalidProblemType")
      [] keyword = "COMMENT" -> Ok([builder EXCEPT !.comment = <<value>>])
      [] keyword = "DIMENSION" ->
            SetField(builder, "dimension", parse_u32(value), "InvalidDimension")
      [] keyword = "CAPACITY" ->
            SetField(builder, "capacity", parse_u32(value), "InvalidCapacity")
      [] keyword = "EDGE_WEIGHT_TYPE" ->
            SetField(builder, "edge_weight_type", parse_edge_weight_type(value),
                     "InvalidEdgeWeightType")
      [] keyword = "EDGE_WEIGHT_FORMAT" ->
            SetField(builder, "edge_weight_format", parse_edge_weight_format(value),
                     "InvalidEdgeWeightFormat")
      [] keyword = "EDGE_DATA_FORMAT" ->
            SetField(builder, "edge_data_format", parse_edge_data_format(value),
                     "InvalidEdgeDataFormat")
      [] keyword = "NODE_COORD_TYPE" ->
            SetField(builder, "node_coord_type", parse_node_coord_type(value),
                     "InvalidNodeCoordType")
      [] keyword = "DISPLAY_DATA_TYPE" ->
            SetField(builder, "display_data_type", parse_display_data_type(value),
                     "InvalidDisplayDataType")
      [] OTHER -> Err("InvalidKeyword")

\* build with dimension checked before problem_type
builder_build_dimension_first(b) ==
    IF b.name = <<>> THEN Err("name is required")
    ELSE IF b.dimension = <<>> THEN Err("dimension is required")
    ELSE IF b.problem_type = <<>> THEN Err("problem_type is required")
    ELSE IF b.edge_weight_type = <<>> THEN Err("edge_weight_type is required")
    ELSE Ok([b EXCEPT !.name = b.name[1], !.problem_type = b.problem_type[1],
                      !.dimension = b.dimension[1],
                      !.edge_weight_type = b.edge_weight_type[1],
                      !.node_coord_type = IF b.node_coord_type = <<>> THEN "NO_COORDS"
                                          ELSE b.node_coord_type[1]])

\* InstanceMetadataBuilder::build (build names the variable of the matrix filler)
builder_build(b) ==
    IF b.name = <<>> THEN Err("name is required")
    ELSE IF b.problem_type = <<>> THEN Err("problem_type is required")
    ELSE IF b.dimension = <<>> THEN Err("dimension is required")
    ELSE IF b.edge_weight_type = <<>> THEN Err("edge_weight_type is required")
    ELSE Ok([b EXCEPT !.name = b.name[1], !.problem_type = b.problem_type[1],
                      !.dimension = b.dimension[1],
                      !.edge_weight_type = b.edge_weight_type[1],
                      !.node_coord_type = IF b.node_coord_type = <<>> THEN "NO_COORDS"
                                          ELSE b.node_coord_type[1]])

\* the lines the headers are made of
SpecificationLines ==
    {[colon |-> TRUE, keyword |-> kv[1], value |-> kv[2]] : kv \in
        {<<"NAME", "a280">>, <<"COMMENT", "drilling">>,
         <<"TYPE", "TSP">>, <<"TYPE", "ATSP">>, <<"TYPE", "SOP">>, <<"TYPE", "HCP">>,
         <<"TYPE", "CVRP">>, <<"TYPE", "TOUR">>, <<"TYPE", "tsp">>,
         <<"DIMENSION", "3">>, <<"DIMENSION", "-1">>, <<"CAPACITY", "52">>,
         <<"EDGE_WEIGHT_TYPE", "EUC_2D">>, <<"EDGE_WEIGHT_TYPE", "EUC">>,
         <<"EDGE_WEIGHT_FORMAT", "FUNCTION">>, <<"EDGE_DATA_FORMAT", "EDGE_LIST">>,
         <<"NODE_COORD_TYPE", "TWOD_COORDS">>, <<"DISPLAY_DATA_TYPE", "NO_DISPLAY">>,
         <<"EOF", "">>}}

KeywordLines ==
    {[colon |-> FALSE, keyword |-> k, value |-> ""] : k \in
        {"NODE_COORD_SECTION", "EDGE_WEIGHT_SECTION", "FIXED_EDGES_SECTION", "EOF", ""}}

HeaderInit ==
    /\ entry = "parse_metadata"
    /\ metadata_builder = NewBuilder
    /\ header_lines = 0
    /\ line = <<>>
    /\ header_result = <<>>
    /\ TreeIdle /\ TourIdle /\ SymIdle /\ FillIdle /\ SolverIdle /\ BoundIdle /\ FixedIdle
    /\ SectionIdle

\* one pass through the loop of parse_metadata on a line that ends with '\n',
\* and what follows the loop when the line is a data keyword (metadata/mod.rs 56-85)
ParseHeaderLine ==
    /\ entry = "parse_metadata" /\ header_result = <<>>
    /\ header_lines < MaxHeaderLines
    /\ \E l \in SpecificationLines \cup KeywordLines :
         /\ line' = l
         /\ header_lines' = header_lines + 1
         /\ IF l.colon
            THEN LET r == parse_specification(l.keyword, l.value, metadata_builder)
                 IN IF r.kind = "ok"
                    THEN metadata_builder' = r.value /\ UNCHANGED header_result
                    ELSE header_result' = <<r>> /\ UNCHANGED metadata_builder
            ELSE LET k == parse_data_keyword(l.keyword)
                     m == builder_build(metadata_builder)
                 IN /\ UNCHANGED metadata_builder
                    /\ header_result' =
                          IF k.kind # "ok" THEN <<k>>
                          ELSE IF m.kind # "ok" THEN <<m>>
                          ELSE <<Ok([metadata |-> m.value, data_keyword |-> k.value])>>
    /\ UNCHANGED <<entry, treeVars, tourVars, symVars, fillVars, solverVars, boundVars,
                   fixedVars, sectionVars>>

\* the input ends before a '\n' is found (metadata/mod.rs 56-60)
HeaderEndOfFile ==
    /\ entry = "parse_metadata" /\ header_result = <<>>
    /\ header_result' = <<Err("InvalidInput")>>
    /\ UNCHANGED <<entry, metadata_builder, header_lines, line, treeVars, tourVars, symVars,
                   fillVars, solverVars, boundVars, fixedVars, sectionVars>>

HeaderNext == ParseHeaderLine \/ HeaderEndOfFile

SpecHeader == HeaderInit /\ [][HeaderNext]_vars

\* the last line read was the specification `keyword : value`
ReadSpecification(keyword) ==
    entry = "parse_metadata" /\ line # <<>> /\ line.colon /\ line.keyword = keyword

(* C12: a header line `TYPE : v` is accepted without an Invalid-problem-type
   error exactly when v is one of TSP, ATSP, SOP, HCP, CVRP, TOUR; in
   particular `TYPE : CVRP` is accepted. *)
C12_ProblemTypeVocabulary ==
    ReadSpecification("TYPE") =>
        (header_result # <<Err("InvalidProblemType")>>
            <=> line.value \in {"TSP", "ATSP", "SOP", "HCP", "CVRP", "TOUR"})

\* the data-section keywords of TSPLIB, and those parse_data_keyword returns
DataSectionKeywords ==
    {"NODE_COORD_SECTION", "DEPOT_SECTION", "DEMAND_SECTION", "EDGE_DATA_SECTION",
     "FIXED_EDGES_SECTION", "DISPLAY_DATA_SECTION", "TOUR_SECTION", "EDGE_WEIGHT_SECTION"}

RequiredFields == <<"name", "problem_type", "dimension", "edge_weight_type">>

MissingFields == {i \in 1 .. Len(RequiredFields) : metadata_builder[RequiredFields[i]] = <<>>}

FirstMissingField == RequiredFields[CHOOSE i \in MissingFields : \A j \in MissingFields : i <= j]

\* the header has reached a line holding one of the keywords
ReachedKeyword(keywords) ==
    entry = "parse_metadata" /\ line # <<>> /\ ~line.colon /\ line.keyword \in keywords

\* what C13 says parse_metadata returns at a data-section keyword
RequiredFieldsOutcome ==
    IF MissingFields # {}
    THEN header_result = <<Err(FirstMissingField \o " is required")>>
    ELSE /\ header_result # <<>> /\ header_result[1].kind = "ok"
         /\ header_result[1].value.data_keyword = line.keyword
         /\ \A i \in 1 .. Len(RequiredFields) :
              header_result[1].value.metadata[RequiredFields[i]]
                  = metadata_builder[RequiredFields[i]][1]
         /\ header_result[1].value.metadata.node_coord_type =
              IF metadata_builder.node_coord_type = <<>> THEN "NO_COORDS"
              ELSE metadata_builder.node_coord_type[1]

(* C13, as stated: at any data-section keyword, parse_metadata returns the
   missing-required-field error of the first unset field in the order name,
   problem_type, dimension, edge_weight_type, and otherwise the metadata with
   node_coord_type defaulting to NO_COORDS. *)
C13_RequiredFieldsAtAnyDataKeyword == ReachedKeyword(DataSectionKeywords) => RequiredFieldsOutcome

(* C13, amended: the same outcome at every data-section keyword other than
   FIXED_EDGES_SECTION. *)
C13_RequiredFieldsAtDataKeyword ==
    ReachedKeyword(DataSectionKeywords \ {"FIXED_EDGES_SECTION"}) => RequiredFieldsOutcome

\* all four fields set, NODE_COORD_TYPE never given: metadata with NO_COORDS
C13_Witness ==
    /\ ReachedKeyword({"NODE_COORD_SECTION"})
    /\ MissingFields = {} /\ metadata_builder.node_coord_type = <<>>
    /\ header_result # <<>> /\ header_result[1].kind = "ok"
    /\ header_result[1].value.metadata.node_coord_type = "NO_COORDS"

---------------------------------------------------------------------------
(* The node coordinate section: tsp-parser data_section/mod.rs. The input from
   index_in_map on is a sequence of lines, every line but possibly the last
   ended by '\n'; a line is the sequence of its whitespace-separated tokens
   (split_ascii_whitespace; the trimmed line is empty iff it has no token) and
   a token is the sequence of its characters. *)

Digits == <<"0", "1", "2", "3", "4", "5", "6", "7", "8", "9">>

IsDigit(c) == \E i \in 1 .. 10 : Digits[i] = c

DigitValue(c) == (CHOOSE i \in 1 .. 10 : Digits[i] = c) - 1

\* str::contains of one character
str_contains(token, c) == \E i \in 1 .. Len(token) : token[i] = c

\* the value of a sequence of decimal digits
RECURSIVE DecimalValue(_)
DecimalValue(digits) ==
    IF digits = <<>> THEN 0
    ELSE 10 * DecimalValue(SubSeq(digits, 1, Len(digits) - 1)) + DigitValue(digits[Len(digits)])

\* a decimal number mant / 10^frac with no trailing zero in the fraction
RECURSIVE Normalised(_, _, _)
Normalised(neg, mant, frac) ==
    IF frac > 0 /\ mant % 10 = 0 THEN Normalised(neg, mant \div 10, frac - 1)
    ELSE [neg |-> neg /\ mant # 0, mant |-> mant, frac |-> frac]

\* str::parse::<u64> followed by `as f64`: an optional '+' and at least one digit
parse_u64(token) ==
    LET digits == IF token # <<>> /\ token[1] = "+" THEN Tail(token) ELSE token
    IN IF digits # <<>> /\ \A i \in 1 .. Len(digits) : IsDigit(digits[i])
       THEN Ok(Normalised(FALSE, DecimalValue(digits), 0))
       ELSE Err("ParseIntError")

\* str::parse::<f64> on tokens of signs, digits and '.': an optional sign, then
\* digits with at most one '.' and at least one digit
parse_f64(token) ==
    LET signed == token # <<>> /\ token[1] \in {"+", "-"}
        number == IF signed THEN Tail(token) ELSE token
        dots == {i \in 1 .. Len(number) : number[i] = "."}
        digits == SelectSeq(number, IsDigit)
        frac == IF dots = {} THEN 0 ELSE Len(number) - (CHOOSE i \in dots : TRUE)
    IN IF /\ digits # <<>>
          /\ Cardinality(dots) <= 1
          /\ \A i \in 1 .. Len(number) : IsDigit(number[i]) \/ number[i] = "."
       THEN Ok(Normalised(signed /\ token[1] = "-", DecimalValue(digits), frac))
       ELSE Err("ParseFloatError")
\* the tokens and lines the sections are made of
Token7 == <<"7">>
Token10 == <<"1", "0">>
Token2p5 == <<"2", ".", "5">>
Token3p0 == <<"3", ".", "0">>
TokenEOF == <<"E", "O", "F">>

SectionLines ==
    { <<Token7, Token7, Token10>>,        \* integer x and y
      <<Token10, Token10, Token2p5>>,     \* integer x, y with '.'
      <<Token7, Token2p5, Token7>>,       \* x with '.', integer y
      <<Token7, Token3p0, Token2p5>>,     \* x and y with '.'
      <<Token10, Token7>>,                \* y missing
      <<TokenEOF>>,
      <<>> }                              \* a blank line

RECURSIVE SeqsUpTo(_, _)
SeqsUpTo(S, k) ==
    IF k = 0 THEN {<<>>}
    ELSE LET shorter == SeqsUpTo(S, k - 1)
         IN shorter \cup {Append(q, x) : q \in {r \in shorter : Len(r) = k - 1}, x \in S}

\* memchr(b'\n', &file_content[*index_in_map..]): is there a '\n' after index lines
HasNewline(file, index) ==
    index < Len(file.lines) - (IF file.terminated THEN 0 ELSE 1)

Point2D(x, y) == [x |-> x, y |-> y]

\* is_float_data: Ok(flag) or the panic of an expect
is_float_data(file, index) ==
    IF ~HasNewline(file, index) THEN Panic("The data section should not be empty")
    ELSE LET parts == file.lines[index + 1]
         IN IF Len(parts) < 2 THEN Panic("Missing x coordinate")
            ELSE Ok(str_contains(parts[2], "."))

\* parse_line_to_2d_point: Ok(point) or the panic of an expect
parse_line_to_2d_point(parts, float) ==
    IF Len(parts) < 2 THEN Panic("Missing x coordinate")
    ELSE IF Len(parts) < 3 THEN Panic("Missing y coordinate")
    ELSE LET x == IF float THEN parse_f64(parts[2]) ELSE parse_u64(parts[2])
             y == IF float THEN parse_f64(parts[3]) ELSE parse_u64(parts[3])
         IN IF x.kind # "ok" THEN Panic("x coordinate should be valid")
            ELSE IF y.kind # "ok" THEN Panic("y coordinate should be valid")
            ELSE Ok(Point2D(x.value, y.value))

SectionInit ==
    /\ entry = "parse_2d_node_coord_section"
    /\ file_content \in {[lines |-> l, terminated |-> t] :
                            l \in SeqsUpTo(SectionLines, MaxLines), t \in BOOLEAN}
    /\ file_content.lines = <<>> => file_content.terminated
    /\ index_in_map = 0
    /\ is_float = <<>>
    /\ point_data = <<>>
    /\ section_result = <<>>
    /\ TreeIdle /\ TourIdle /\ SymIdle /\ FillIdle /\ SolverIdle /\ BoundIdle /\ FixedIdle
    /\ HeaderIdle

SectionRest ==
    UNCHANGED <<entry, file_content, treeVars, tourVars, symVars, fillVars, solverVars,
                boundVars, fixedVars, headerVars>>

\* the sampling of the first line (data_section/mod.rs 123)
SampleIsFloatData ==
    /\ entry = "parse_2d_node_coord_section" /\ section_result = <<>> /\ is_float = <<>>
    /\ LET r == is_float_data(file_content, index_in_map)
       IN IF r.kind = "ok"
          THEN is_float' = <<r.value>> /\ UNCHANGED section_result
          ELSE section_result' = <<r>> /\ UNCHANGED is_float
    /\ UNCHANGED <<index_in_map, point_data>>
    /\ SectionRest

\* one pass through the loop on a line ended by '\n' (data_section/mod.rs 125-142)
ParseSectionLine ==
    /\ entry = "parse_2d_node_coord_section" /\ section_result = <<>> /\ is_float # <<>>
    /\ HasNewline(file_content, index_in_map)
    /\ LET line_str == file_content.lines[index_in_map + 1]
           point == parse_line_to_2d_point(line_str, is_float[1])
       IN /\ index_in_map' = index_in_map + 1
          /\ IF line_str = <<TokenEOF>> \/ line_str = <<>>
             THEN section_result' = <<Ok(point_data)>> /\ UNCHANGED point_data
             ELSE IF point.kind = "ok"
             THEN point_data' = Append(point_data, point.value) /\ UNCHANGED section_result
             ELSE section_result' = <<point>> /\ UNCHANGED point_data
    /\ UNCHANGED is_float
    /\ SectionRest

\* no '\n' is left: the loop ends and point_data is returned (125, 144)
SectionEndOfInput ==
    /\ entry = "parse_2d_node_coord_section" /\ section_result = <<>> /\ is_float # <<>>
    /\ ~HasNewline(file_content, index_in_map)
    /\ section_result' = <<Ok(point_data)>>
    /\ UNCHANGED <<index_in_map, is_float, point_data>>
    /\ SectionRest

SectionNext == SampleIsFloatData \/ ParseSectionLine \/ SectionEndOfInput

SpecSection == SectionInit /\ [][SectionNext]_vars

\* the first line of the section has an x and a y token
FirstLineHasCoordinates ==
    entry = "parse_2d_node_coord_section" /\ file_content.lines # <<>>
        /\ Len(file_content.lines[1]) >= 3

\* is_float_data has returned: the flag every line is parsed with
SectionSampled == entry = "parse_2d_node_coord_section" /\ is_float # <<>>

(* C14: when the first data line has a '.' in its x token or in its y token
   every data line is parsed as double-precision; the lines are parsed as
   unsigned 64-bit integers only when neither token has a '.'. *)
C14_FloatIfEitherCoordinateHasDot ==
    (SectionSampled /\ FirstLineHasCoordinates) =>
        is_float[1] = (str_contains(file_content.lines[1][2], ".")
                          \/ str_contains(file_content.lines[1][3], "."))

\* the lines before the first line that is the token EOF, or all lines
RECURSIVE BeforeEOF(_)
BeforeEOF(lines) ==
    IF lines = <<>> \/ Head(lines) = <<TokenEOF>> THEN <<>>
    ELSE <<Head(lines)>> \o BeforeEOF(Tail(lines))

NotBlank(l) == l # <<>>

DataLines == SelectSeq(BeforeEOF(file_content.lines), NotBlank)

(* C15: parse_2d_node_coord_section returns one point per data line before the
   first EOF token or the end of the input, in the order of the lines, from
   the second and third token of the line whatever the first token is. *)
C15_OnePointPerDataLine ==
    (entry = "parse_2d_node_coord_section" /\ section_result # <<>>
        /\ section_result[1].kind = "ok") =>
        /\ Len(section_result[1].value) = Len(DataLines)
        /\ \A i \in 1 .. Len(DataLines) :
             section_result[1].value[i] = parse_line_to_2d_point(DataLines[i], is_float[1]).value

---------------------------------------------------------------------------
(* Frame conditions of explore_node, checked under Spec *)

\* a call of explore_node is returning: to the frame on top of the stack, or to
\* held_karp when no frame is left
ExploreReturning == entry = "held_karp" /\ pc = "return"

\* what the returning call was entered with; held_karp enters the first call
\* with every edge Available and every fixed degree 0 (mod.rs 103-118)
EntryOfReturningCall ==
    IF stack = <<>>
    THEN AtCall([p \in Nodes(dimension) \X Nodes(dimension) |-> Available],
                [v \in Nodes(dimension) |-> 0],
                initial_penalties(scaled_distances, dimension))
    ELSE stack[Len(stack)].at_call

\* C19: when a recursive call of explore_node returns to its parent, the node
\* penalties have the values they had immediately before the call.
C19_PenaltiesRestoredOnBacktrack ==
    (ExploreReturning /\ stack # <<>>)
        => node_penalties = EntryOfReturningCall.node_penalties

---------------------------------------------------------------------------
(* Invariants of the branch-and-bound, checked under Spec *)

InSearch == entry = "held_karp"

\* the number of Fixed entries in row v of the edge-state matrix
FixedInRow(v) == Cardinality({u \in Nodes(dimension) : edge_states[v, u] = Fixed})

\* C21: in every state of the branch-and-bound, fixed_degrees[v] is the number
\* of Fixed entries in row v of the edge-state matrix, and it is between 0 and 2.
C21_FixedDegreesCountFixedEdges ==
    InSearch =>
        \A v \in Nodes(dimension) :
            /\ fixed_degrees[v] = FixedInRow(v)
            /\ 0 <= fixed_degrees[v] /\ fixed_degrees[v] <= 2

\* the call for an Excluded branch has returned and the branching edge has an
\* end of fixed degree 2: the Fixed branch is not taken
C21_Witness ==
    /\ InSearch /\ pc = "return" /\ stack # <<>>
    /\ stack[Len(stack)].branch = "excluded"
    /\ \/ fixed_degrees[stack[Len(stack)].branching_edge.from] = 2
       \/ fixed_degrees[stack[Len(stack)].branching_edge.to] = 2
    /\ FixedInRow(stack[Len(stack)].branching_edge.from)
          + FixedInRow(stack[Len(stack)].branching_edge.to) >= 2

\* explore_node is about to take the arm Some(LowerBoundOutput::Tour(tour))
ReplacingBestTour == InSearch /\ pc = "decide" /\ lb_output.kind = "Tour"

\* one step of the search keeps the upper bound or, replacing best_tour, lowers it
UpperBoundStep ==
    InSearch =>
        /\ upper_bound' <= upper_bound
        /\ best_tour' # best_tour => ReplacingBestTour
        /\ ReplacingBestTour =>
              /\ best_tour'.cost < upper_bound
              /\ best_tour' = [edges |-> lb_output.tree, cost |-> lb_output.cost]

\* C22: the upper bound starts as the cost of the identity tour and never
\* increases; whenever explore_node replaces best_tour the new tour's cost is
\* strictly below the previous upper bound; best_tour.cost is the upper bound
\* in every state.
C22_UpperBoundDecreases ==
    /\ (InSearch => upper_bound = InitialTour(distances, dimension).cost)
    /\ [](InSearch => best_tour.cost = upper_bound)
    /\ [][UpperBoundStep]_vars

\* explore_node has just replaced best_tour by a tour that is cheaper than the
\* identity tour by 2 or more
C22_Witness ==
    /\ InSearch /\ pc = "return" /\ lb_output.kind = "Tour"
    /\ best_tour.edges = lb_output.tree
    /\ best_tour.cost + 2 <= InitialTour(distances, dimension).cost

\* the frame explore_node resumes when a recursive call returns
TopFrame == stack[Len(stack)]

BothDegreesBelowTwo(e) == fixed_degrees[e.from] < 2 /\ fixed_degrees[e.to] < 2

\* a call made for an Excluded branch has returned to the frame that made it
ExcludedBranchReturned ==
    InSearch /\ pc = "return" /\ stack # <<>> /\ TopFrame.branch = "excluded"

\* the step begins the Fixed branch of the frame on top of the stack
FixedBranchBegins ==
    /\ Len(stack') = Len(stack) /\ stack # <<>>
    /\ stack'[Len(stack')].branch = "fixed" /\ TopFrame.branch # "fixed"

\* one step of explore_node with respect to the order of the two branches
BranchOrderStep ==
    InSearch =>
        \* a new frame begins with the Excluded branch of an Available edge
        /\ Len(stack') > Len(stack) =>
              /\ Len(stack') = Len(stack) + 1
              /\ stack'[Len(stack')].branch = "excluded"
              /\ LET e == stack'[Len(stack')].branching_edge
                 IN /\ edge_states[e.from, e.to] = Available
                    /\ edge_states' = set_data_symmetric(edge_states, e.from, e.to, Excluded)
        \* the Fixed branch begins only when the call for the Excluded branch has
        \* returned, with every state but that of e as it was when that call began
        /\ FixedBranchBegins =>
              /\ ExcludedBranchReturned
              /\ stack'[Len(stack')].branching_edge = TopFrame.branching_edge
              /\ edge_states = TopFrame.at_call.edge_states
              /\ edge_states[TopFrame.branching_edge.from, TopFrame.branching_edge.to] = Excluded
              /\ edge_states' = set_data_symmetric(edge_states, TopFrame.branching_edge.from,
                                                   TopFrame.branching_edge.to, Fixed)
        \* after the Excluded branch: the Fixed one iff both degrees are below 2,
        \* else e is Available again and the frame is left
        /\ ExcludedBranchReturned =>
              IF BothDegreesBelowTwo(TopFrame.branching_edge)
              THEN FixedBranchBegins /\ pc' = "enter"
              ELSE /\ stack' = SubSeq(stack, 1, Len(stack) - 1)
                   /\ pc' = "return"
                   /\ edge_states' = set_data_symmetric(edge_states, TopFrame.branching_edge.from,
                                                        TopFrame.branching_edge.to, Available)
                   /\ fixed_degrees' = fixed_degrees

MaxFrames == (dimension * (dimension - 1)) \div 2

\* the edges branched on along the current path, as unordered pairs
PathEdges == [i \in 1 .. Len(stack) |-> EdgePairs(<<stack[i].branching_edge>>)]

DecidedPairs == {p \in Pairs(Nodes(dimension)) : StateOf(edge_states, p) # Available}

\* along the current path every frame has turned one Available edge of its own
\* into Excluded or Fixed, and nothing else is decided
PathDiscipline ==
    InSearch =>
        /\ \A i, j \in 1 .. Len(stack) : i # j => PathEdges[i] # PathEdges[j]
        /\ \A i \in 1 .. Len(stack) :
              \A p \in PathEdges[i] :
                 StateOf(edge_states, p) = (IF stack[i].branch = "excluded" THEN Excluded
                                            ELSE Fixed)
        /\ DecidedPairs = UNION {PathEdges[i] : i \in 1 .. Len(stack)}
        /\ Cardinality(DecidedPairs) = Len(stack)
        /\ 2 * Len(stack) <= dimension * (dimension - 1)
        /\ depth = Len(stack)

\* the position of a call, in the order in which a call passes through them
PcRank ==
    CASE pc = "lb" -> 1
      [] pc = "decide" -> 2
      [] pc = "return" -> 3
      [] pc = "enter" -> 4
      [] OTHER -> 5

\* a variant of the search: calls begun, position in the call, 1-trees built in
\* the call, frames already left
SearchMeasure == <<bb_counter, PcRank, iter_count, MaxFrames - Len(stack)>>

LexLess(a, b) ==
    \E i \in 1 .. Len(a) : a[i] < b[i] /\ \A j \in 1 .. i - 1 : a[j] = b[j]

\* a binary tree of depth n(n-1)/2 has fewer than 2^(n(n-1)/2 + 1) nodes
MeasureBounded ==
    InSearch =>
        /\ bb_counter < 2 ^ ((dimension * (dimension - 1)) \div 2 + 1)
        /\ PcRank \in 1 .. 5
        /\ iter_count \in 0 .. INITIAL_MAX_ITERATIONS
        /\ Len(stack) \in 0 .. MaxFrames

\* a search that has not returned is at a position that is the whole guard of
\* one of the four actions, so it can take a step
NotStuck == InSearch /\ pc # "done" => pc \in {"enter", "lb", "decide", "return"}

MeasureGrows == InSearch => LexLess(SearchMeasure, SearchMeasure')

\* C25: held_karp terminates: the edge branched on is Available, each descent
\* turns exactly one Available edge into Excluded or Fixed, no edge is branched
\* on twice along one path and the recursion depth is at most n(n-1)/2.  Every
\* step increases the bounded variant SearchMeasure, and every run returns.
C25_SearchTerminates ==
    /\ [](PathDiscipline /\ MeasureBounded /\ NotStuck)
    /\ [][MeasureGrows]_vars
    /\ <>Returned

\* two frames deep, one in its Excluded and one in its Fixed branch
C25_Witness ==
    /\ InSearch /\ Len(stack) = 2 /\ pc = "lb"
    /\ stack[1].branch # stack[2].branch
    /\ Cardinality(DecidedPairs) = 2

---------------------------------------------------------------------------
\* Properties of held_karp_lower_bound

\* the number of 1-trees a call at the current depth may build
IterationCap == IF depth = 0 THEN INITIAL_MAX_ITERATIONS ELSE MAX_ITERATIONS

InBound == InSearch /\ pc = "lb"
BoundReturned == InSearch /\ pc = "decide"

\* the degree deviations of the last 1-tree of the call
LastSquareSum == SquareSum(Deg(one_tree.tree, dimension), dimension)

\* the step size the last iteration computes, alpha being updated only after it
LastStepSize == StepSize(alpha, scaled_upper_bound - one_tree_cost, LastSquareSum)

\* at the head of the loop iter_count 1-trees have been built and one more is
\* built now; after the loop at most one more than iter_count, and then only
\* on a return that precedes the increment
TreesWithinCap ==
    /\ InBound => iter_count < IterationCap
    /\ BoundReturned => iter_count <= IterationCap

BoundOutcome ==
    BoundReturned =>
        CASE lb_output.kind = "None" -> ~one_tree.ok
          [] lb_output.kind = "Tour" ->
                /\ one_tree.ok /\ one_tree_cost < scaled_upper_bound
                /\ LastSquareSum = 0
          [] lb_output.kind = "LowerBound" ->
                /\ one_tree.ok
                /\ \/ one_tree_cost >= scaled_upper_bound
                   \/ /\ LastSquareSum # 0
                      /\ \/ iter_count >= IterationCap
                         \/ LastStepSize <= 3
          [] OTHER -> FALSE

\* C26: every call of held_karp_lower_bound terminates after at most
\* max_iterations 1-trees (1000 at depth 0, 10 at any other depth) and ends
\* in exactly one of: infeasible, Tour, or LowerBound because the Lagrangian
\* value reached the scaled upper bound, the cap was reached or the step size
\* is at most 3.
C26_LowerBoundTerminates ==
    /\ [](TreesWithinCap /\ BoundOutcome)
    /\ (InBound ~> BoundReturned)

\* a call below the root that stops at the cap and at nothing else
C26_Witness ==
    /\ BoundReturned /\ depth > 0 /\ lb_output.kind = "LowerBound"
    /\ iter_count = MAX_ITERATIONS
    /\ one_tree_cost < scaled_upper_bound /\ LastStepSize > 3

---------------------------------------------------------------------------
\* Properties of the chunked fill

\* C27: during the chunked fill every write of a worker lands inside the slice
\* of that worker: 0 <= row * dimension + column - chunk_start_index < chunk.len()
\* for every cell the worker computes, for every n and every number of chunks.
C27_WritesInsideChunk ==
    entry = "fill" =>
        \A w \in 1 .. Len(workers) :
           workers[w].state # "spawned" =>
              \A cell \in ChunkCells(workers[w].first_entry_index,
                                     workers[w].number_of_entries_in_chunk) :
                 /\ 0 <= IndexInChunk(cell, workers[w].chunk_start_index, fill_dimension)
                 /\ IndexInChunk(cell, workers[w].chunk_start_index, fill_dimension)
                        < workers[w].chunk_len

---------------------------------------------------------------------------
\* Properties of to_distance_rounded_up

RoundedUp == entry = "fixed_point" /\ fp_pc \in {"up", "up_wrapped", "up_panicked"}

\* the least integer not below s / 2^BITS
CeilingOfScaled(s) == -((-s) \div (2 ^ FIXED_POINT_FRACTIONAL_BITS))

\* C28: to_distance_rounded_up(s) returns ceil(s / 32) with no 32-bit signed
\* overflow in any intermediate value for every 0 <= s <=
\* from_distance(Distance::MAX); in particular
\* to_distance_rounded_up(from_distance(d)) = d for every 0 <= d <= Distance::MAX.
C28_RoundedUpIsCeiling ==
    (RoundedUp /\ 0 <= fp_scaled /\ fp_scaled <= from_distance(DistanceMAX))
        => /\ fp_pc = "up"
           /\ fp_back = CeilingOfScaled(fp_scaled)
           /\ (fp_value \in 0 .. DistanceMAX /\ fp_scaled = from_distance(fp_value))
                 => fp_back = fp_value

\* the sum of the penalties as they are now
PenaltySum == SumVec(node_penalties, dimension)

\* the degree deviations of the 1-tree of the last iteration sum to 0
DeviationsSumToZero ==
    (InSearch /\ pc \in {"lb", "decide"} /\ one_tree.ok)
        => SumVec(Deg(one_tree.tree, dimension), dimension) = 0

\* node_penalty_sum is the sum of the penalties whenever the loop is entered
\* or left
PenaltySumKept == (InSearch /\ pc \in {"lb", "decide"}) => node_penalty_sum = PenaltySum

\* one pass of the loop leaves the sum of the penalties as it was
PenaltyUpdateKeepsSum == (InSearch /\ pc = "lb") => PenaltySum' = PenaltySum

\* C29: the penalty update in held_karp_lower_bound leaves the sum of all node
\* penalties unchanged (the deviations 2 - deg(v) of a 1-tree sum to 0), so
\* node_penalty_sum, computed once before the loop, is the sum of the current
\* penalties in every iteration that evaluates the 1-tree cost.
C29_PenaltySumInvariant ==
    /\ [](DeviationsSumToZero /\ PenaltySumKept)
    /\ [][PenaltyUpdateKeepsSum]_vars

\* a third iteration below the root, on penalties that have been updated
C29_Witness ==
    /\ InSearch /\ pc = "lb" /\ depth > 0 /\ iter_count >= 2
    /\ \E v \in Nodes(dimension) : node_penalties[v] # one_tree_penalties[v]
    /\ \E v \in Nodes(dimension) : node_penalties[v] > 0

\* the call returns LowerBound(lb, tree)
LowerBoundReturned == BoundReturned /\ lb_output.kind = "LowerBound"

\* the largest Lagrangian value so far: below every value when the call begins,
\* and raised by each 1-tree whose value exceeds it
BestFollowsValues ==
    /\ (InSearch /\ pc = "enter" /\ pc' = "lb") => scaled_best_lower_bound' = ScaledMIN
    /\ (InSearch /\ pc = "lb" /\ one_tree'.ok) =>
          /\ one_tree_cost' = OneTreeCost(one_tree'.tree, scaled_distances, node_penalties,
                                          PenaltySum)
          /\ scaled_best_lower_bound' >= one_tree_cost'
          /\ scaled_best_lower_bound' >= scaled_best_lower_bound
          /\ scaled_best_lower_bound' \in {one_tree_cost', scaled_best_lower_bound}

\* the penalties in place are those of the returned 1-tree, which is the 1-tree
\* min_one_tree builds under them, and the bound is the ceiling of the largest
\* Lagrangian value
LowerBoundOutput ==
    LowerBoundReturned =>
        /\ node_penalties = one_tree_penalties
        /\ lb_output.tree = one_tree.tree
        /\ lb_output.tree =
              min_one_tree(scaled_distances, edge_states, node_penalties, dimension).tree
        /\ lb_output.lower_bound = CeilingOfScaled(scaled_best_lower_bound)
        /\ scaled_best_lower_bound >= one_tree_cost

\* C30: whenever held_karp_lower_bound returns LowerBound(lb, tree), the
\* penalties left in place are exactly those under which tree was built, and lb
\* is the rounded-up maximum of the Lagrangian values of all 1-trees built in
\* that call.
C30_LowerBoundOfLastPenalties == []LowerBoundOutput /\ [][BestFollowsValues]_vars

\* a bound that is not the value of the last 1-tree and not a multiple of the
\* scale, returned after penalty updates
C30_Witness ==
    /\ LowerBoundReturned /\ iter_count >= 2
    /\ scaled_best_lower_bound > one_tree_cost
    /\ scaled_best_lower_bound % (2 ^ FIXED_POINT_FRACTIONAL_BITS) # 0
    /\ \E v \in Nodes(dimension) : node_penalties[v] # 0

===========================================================================
